---- MODULE Spec2Model ----
(***************************************************************************)
(* A model of the SAEM iteration engine of nlmixr2est (src/saem.cpp):      *)
(* SAEM::saem_fit, SAEM::do_mcmc, the residual-model fitter and the        *)
(* exported wrapper saem_fit.                                              *)
(*                                                                         *)
(* Real-valued quantities are carried as small integers.  Values that the  *)
(* code obtains from the random number generator, from the external        *)
(* structural-model evaluator or from the external minimizer are inputs    *)
(* of the actions, drawn with \E from the bounded sets below.  Indices are *)
(* 1-based here and 0-based in the source; iteration numbers (kiter) are   *)
(* 0-based as in the source.                                               *)
(***************************************************************************)
EXTENDS Integers, Sequences, FiniteSets, TLC

\* ------------------------------------------------------------------ bounds
\* Largest configured iteration count niter.
MaxIter == 2
\* Largest configured repetition count nu(j) of a proposal kernel.
MaxNu == 2
\* Chain-state cells phiM(r,c) range over -MaxPhi..MaxPhi.
MaxPhi == 1
\* Covariance entries (moment estimates G1, fixed values, minv) range over 0..MaxVar.
MaxVar == 2
\* Coordinates returned by the minimizer range over 0..MaxX.
MaxX == 1
\* Largest burn-in count (nb_sa, nb_correl, nb_fixOmega, nb_fixResid, niter_phi0).
MaxBurn == 1

\* Largest configured re-solve budget maxOdeRecalc.
MaxRecalc == 2

\* --------------------------------------------------------- program constants
\* The first iteration repeats every kernel 20 times as often (saem.cpp:788).
WarmStart == 20

\* The value that replaces a NaN prediction (1.0e99, saem.cpp:2024).
Penalty == 99

\* res_mod defines (saem.cpp:59-68)
rmAdd == 1
rmProp == 2
rmPow == 3
rmAddProp == 4
rmAddPow == 5
rmAddLam == 6
rmPropLam == 7
rmPowLam == 8
rmAddPropLam == 9
rmAddPowLam == 10

VARIABLES
  cfg,          \* the configuration list x read by SAEM::inits (never written afterwards)
  pc,           \* position of the exported saem_fit / SAEM::saem_fit
  kiter,        \* loop counter of SAEM::saem_fit
  err,          \* the exception in flight: "none", "nan" (Rcpp::stop), "interrupt"
  out,          \* the List the exported saem_fit returns to its caller
  phaseCount,   \* per phase of the loop body, the number of iterations that ran it
  par_hist,     \* SAEM::par_hist, one row per iteration
  phiDumps,     \* number of "phiFile << phiM" dumps written
  phiM,         \* SAEM::phiM, the chain-state matrix (nM rows, nphi columns)
  mcNext,       \* the proposal do_mcmc executes next: [s, method, u, k1]
  mc,           \* the proposal do_mcmc executed last: [s, method, u, k1]
  ind,          \* do_mcmc's accepted set of the last proposal
  fsave,        \* SAEM::fsave, the cached predictions, per observation
  U_y,          \* saem_fit's U_y: per row, the contributions of its observations
  DYF,          \* SAEM::DYF, the per-observation likelihood matrix (mlen x nM), cell by
                \* cell in column-major order
  fcKind,       \* per observation, what column 0 of the matrix user_fn returned last
                \* holds: "num", "penalty" (1e99) or "nan"
  nEval,        \* calls of user_fn: before the loop, and per subset in this iteration
  atolRtol,     \* the solver's tolerance scaling, as a power of odeRecalcFactor
  solves,       \* the tolerance scaling of every par_solve of the last user_fn call
  warnAtolRtol, \* _warnAtolRtol
  nanWarnings,  \* number of NaN warnings printed in this fit
  nanCalls,     \* number of user_fn calls of this fit that saw a NaN prediction
  MCOV,         \* covariate coefficients Plambda (MCOV1(jcov1), MCOV0(jcov0)), per column
  G1,           \* saem_fit's local G1: the moment estimate of the last population update
  Gamma2_phi1,  \* SAEM::Gamma2_phi1
  Gamma2_phi0,  \* SAEM::Gamma2_phi0
  dGamma2_phi0, \* SAEM::dGamma2_phi0
  ares, bres, cres, lres, \* residual parameters, per endpoint
  pxmin,        \* per endpoint, the vector xmin the minimizer was last given to fill
  opt,          \* per endpoint, the last call of the optimizer adapter: [n, start, path,
                \* iconv], the length of xmin (alloc) and the numbers of its leading
                \* entries the adapter wrote (written) and the blend read (read)
  objEval,      \* per endpoint, the evaluation of its objective at the point the
                \* minimizer returned: per observation, the scale and the divisor
  resy          \* saem_fit's resy as the integration loop leaves it: per chain, a
                \* residual sum of squares as a fraction <<numerator, denominator>>

engineVars == <<pc, kiter, err, out, phaseCount, par_hist, phiDumps>>
evalVars == <<fcKind, nEval, atolRtol, solves, warnAtolRtol, nanWarnings, nanCalls>>
mcmcVars == <<phiM, mcNext, mc, ind, fsave, U_y, DYF, evalVars>>
popVars == <<MCOV, G1, Gamma2_phi1, Gamma2_phi0, dGamma2_phi0>>
resVars == <<ares, bres, cres, lres, pxmin, opt, objEval>>
statVars == <<resy>>
vars == <<cfg, engineVars, mcmcVars, popVars, resVars, statVars>>

\* ------------------------------------------------------------------ helpers
Max2(a, b) == IF a > b THEN a ELSE b

Min2(a, b) == IF a < b THEN a ELSE b

Range(s) == {s[j] : j \in DOMAIN s}

RECURSIVE SeqSum(_)
SeqSum(s) == IF s = <<>> THEN 0 ELSE Head(s) + SeqSum(Tail(s))

RECURSIVE Flatten(_)
Flatten(ss) == IF ss = <<>> THEN <<>> ELSE Head(ss) \o Flatten(Tail(ss))

\* ---------------------------------------------------------- configuration
nM == cfg.N * cfg.nmc

Rows == 1..nM

nphi1 == Len(cfg.i1)

nphi0 == Len(cfg.i0)

nphi == nphi1 + nphi0

Cols == 1..nphi

Endpoints == 1..cfg.nendpnt

PhiVals == (0 - MaxPhi)..MaxPhi

VarVals == 0..MaxVar

XVals == 0..MaxX

\* Noise cells: a standard-normal draw times a Cholesky / diagonal factor.
Noise == {0 - 1, 0, 1}

\* Prior means are design matrix times coefficients (saem.cpp:992-993); the
\* design here is intercept-only, so every subject's mean for column c is MCOV[c].
CoefVals == 0..MaxPhi

mprior_phiM(r, c) == MCOV[c]

\* ------------------------------------------------------------ loop body
PhaseSet ==
  {"SampleE", "UpdateStatistics", "UpdatePopulationParams",
   "FitResidualModels", "UpdateInformation", "LogIteration"}

\* A variant of the loop body that fits the residual models before it updates
\* the population parameters.
NextPhaseResidFirst(p) ==
  CASE p = "SampleE" -> "UpdateStatistics"
    [] p = "UpdateStatistics" -> "FitResidualModels"
    [] p = "FitResidualModels" -> "UpdatePopulationParams"
    [] p = "UpdatePopulationParams" -> "UpdateInformation"
    [] p = "UpdateInformation" -> "LogIteration"
    [] p = "LogIteration" -> "CheckInterrupt"

\* The block of the loop body that follows block p (saem.cpp:834-1734):
\* MCMC (834), stochastic approximation (855-976), parameter update
\* (978-1031), residual models (1033-1652), Fisher information (1655-1666),
\* history row (1668-1733), interrupt check (1734).
NextPhase(p) ==
  CASE p = "SampleE" -> "UpdateStatistics"
    [] p = "UpdateStatistics" -> "UpdatePopulationParams"
    [] p = "UpdatePopulationParams" -> "FitResidualModels"
    [] p = "FitResidualModels" -> "UpdateInformation"
    [] p = "UpdateInformation" -> "LogIteration"
    [] p = "LogIteration" -> "CheckInterrupt"

\* --------------------------------------------------------------- E-step
\* A variant without the warm start of the first iteration.
nuOfNoWarmStart(k, j) == cfg.nu[j]

\* nu1, nu2, nu3 of iteration k (saem.cpp:786-795).
nuOf(k, j) == IF k = 0 THEN WarmStart * cfg.nu[j] ELSE cfg.nu[j]

\* The columns of subset s: i1 for s = 1, i0 for s = 0.
SubsetCols(s) == IF s = 1 THEN cfg.i1 ELSE cfg.i0

\* No proposal: the E-step's calls are over (or have not begun).
NoProposal == [s |-> 0, method |-> 0, u |-> 0, k1 |-> 0]

\* The first proposal executed from the call do_mcmc(method, ...) of subset s
\* on: calls with no repetitions and subsets with no columns execute nothing
\* (saem.cpp:834-849, 1870-1871).  Subset 1 (i1) comes before subset 0 (i0).
RECURSIVE FirstFrom(_, _, _)
FirstFrom(s, method, k) ==
  IF s < 0 THEN NoProposal
  ELSE IF method > 3 THEN FirstFrom(s - 1, 1, k)
  ELSE IF Len(SubsetCols(s)) > 0 /\ nuOf(k, method) > 0
       THEN [s |-> s, method |-> method, u |-> 0, k1 |-> 1]
       ELSE FirstFrom(s, method + 1, k)

\* A variant that interleaves the kernels inside each repetition u: block,
\* diagonal, per-coordinate sweep, then the block proposal of u + 1.
NextProposalInterleaved(p, k) ==
  LET np == Len(SubsetCols(p.s))
      more(m, u) == u < nuOf(k, m)
      at(m, u) == [s |-> p.s, method |-> m, u |-> u, k1 |-> 1]
  IN IF p.method = 3 /\ p.k1 < np THEN [p EXCEPT !.k1 = @ + 1]
     ELSE IF p.method = 1 /\ more(2, p.u) THEN at(2, p.u)
     ELSE IF p.method \in {1, 2} /\ more(3, p.u) THEN at(3, p.u)
     ELSE IF more(1, p.u + 1) THEN at(1, p.u + 1)
     ELSE IF more(2, p.u + 1) THEN at(2, p.u + 1)
     ELSE IF more(3, p.u + 1) THEN at(3, p.u + 1)
     ELSE FirstFrom(p.s - 1, 1, k)

\* The proposal executed after proposal p in iteration k: the loops
\* "for (u < nu) for (k1 < mphi.nphi) { ...; if (method<3) break; }" of
\* do_mcmc (saem.cpp:1870-1871, 1941-1943), then the next call.
\* u is 0-based as in the source, k1 indexes the subset from 1.
NextProposal(p, k) ==
  IF p.method = 3 /\ p.k1 < Len(SubsetCols(p.s)) THEN [p EXCEPT !.k1 = @ + 1]
  ELSE IF p.u + 1 < nuOf(k, p.method) THEN [p EXCEPT !.u = @ + 1, !.k1 = 1]
  ELSE FirstFrom(p.s, p.method + 1, k)

\* Scaled diagonal factor Gdiag_phi = sqrt(diag(Gamma2))*rmcmc applied to a
\* noise draw (saem.cpp:1844): zero when rmcmc = 0.
GdiagNoise(z) == z * cfg.rmcmc

\* The proposed chain state phiMc of one proposal p with noise z
\* (saem.cpp:1872-1887).  z[r][j] is the draw for row r and subset position j.
Propose(p, z) ==
  LET i == SubsetCols(p.s)
      pos(c) == CHOOSE j \in 1..Len(i) : i[j] = c
  IN [r \in Rows |-> [c \in Cols |->
       IF c \notin Range(i) THEN phiM[r][c]
       ELSE CASE p.method = 1 ->
                   z[r][pos(c)] * cfg.ue[r][c] + mprior_phiM(r, c)
              [] p.method = 2 ->
                   phiM[r][c] + GdiagNoise(z[r][pos(c)]) * cfg.ue[r][c]
              [] OTHER ->
                   IF c = i[p.k1]
                   THEN phiM[r][c] + GdiagNoise(z[r][p.k1]) * cfg.ue[r][p.k1]
                   ELSE phiM[r][c]]]

\* A variant that takes the whole proposal, accepted or not.
AcceptAll(cur, phiMc, acc, i) == phiMc

\* phiM(ind,i) = phiMc(ind,i) (saem.cpp:1934).
AcceptRows(cur, phiMc, acc, i) ==
  [r \in Rows |-> [c \in Cols |->
     IF r \in acc /\ c \in Range(i) THEN phiMc[r][c] ELSE cur[r][c]]]

\* ----------------------------------------------------------- the evaluator
\* A prediction that is not a number.
NaN == 0 - 1

\* The observations, in the order of the evaluator's result matrix.
Obs == 1..Len(cfg.yM)

\* The chain row whose observation window holds observation o.
RowOfObs(o) == CHOOSE r \in Rows : cfg.ix_idM[r][1] <= o /\ o <= cfg.ix_idM[r][2]

\* A variant that leaves the last observation of every window out.
getObsIdxOpenEnd(m) == UNION {(w[1])..(w[2] - 1) : w \in m}

\* getObsIdx (saem.cpp:483-493): the observations first..last of every window
\* <<first, last>> of m.
getObsIdx(m) == UNION {(w[1])..(w[2]) : w \in m}

\* The structural model: what saem_lhs leaves in lhs[0] for observation o under
\* the chain state M (saem.cpp:2020-2022).  The model is a function of the
\* observation's own row, different for different rows; it gives NaN at the
\* predictions the configuration lists in nanPred.
RECURSIVE RowCode(_, _)
RowCode(row, c) ==
  IF c = 0 THEN 0
  ELSE (row[c] + MaxPhi) + (2 * MaxPhi + 1) * RowCode(row, c - 1)

PredAt(row) == 1 + RowCode(row, Len(row))

saem_lhs(M, o) ==
  LET v == PredAt(M[RowOfObs(o)])
  IN IF v \in cfg.nanPred THEN NaN ELSE v

\* The solves of one evaluator call when the first nbad of them are reported
\* bad (saem.cpp:1990-1999): the tolerance scaling, as a power of
\* odeRecalcFactor, under which each par_solve ran.
SolvesOf(nbad, tol) ==
  LET j == Min2(nbad, cfg.maxOdeRecalc)
  IN [k \in 1..(j + 1) |-> tol + (k - 1)]

\* A variant that leaves the widened tolerances in place.
RestoreTolNever(tol, j) == tol + j

\* The tolerance scaling after j re-solves (saem.cpp:2000-2003):
\* atolRtolFactor_(pow(factor, -j)) on top of the j widenings.
RestoreTol(tol, j) == IF j # 0 THEN (tol + j) - j ELSE tol

\* "if (std::isnan(cur)) cur = 1.0e99" (saem.cpp:2023-2026).
ReplaceNaN(cur) == IF cur = NaN THEN Penalty ELSE cur

\* user_function (saem.cpp:1970-2052) on chain state M: column 0 of the matrix
\* it returns, whether a prediction was NaN, the solves it ran and the
\* tolerance scaling it leaves.
user_function(M, nbad) ==
  LET solved == SolvesOf(nbad, atolRtol)
      lhs == [o \in Obs |-> saem_lhs(M, o)]
  IN [g |-> [o \in Obs |-> ReplaceNaN(lhs[o])],
      hasNan |-> \E o \in Obs : lhs[o] = NaN,
      solves |-> solved,
      atolRtol |-> RestoreTol(atolRtol, Len(solved) - 1)]

\* A variant that prints the warning in every call that saw a NaN.
WarnsAlways(hasNan, warned) == hasNan

\* "if (hasNan && !_warnAtolRtol)" (saem.cpp:2047).
Warns(hasNan, warned) == hasNan /\ ~warned

\* What one call of user_fn leaves behind, ev being what user_function
\* returned and warned the flag _warnAtolRtol it found; slot names the caller:
\* "init" for the call before the loop, "s1" and "s0" for the proposals of the
\* two subsets.
Called(ev, slot, warned) ==
  /\ fcKind' = [o \in Obs |-> IF ev.g[o] = NaN THEN "nan"
                              ELSE IF ev.g[o] = Penalty THEN "penalty"
                              ELSE "num"]
  /\ solves' = ev.solves
  /\ atolRtol' = ev.atolRtol
  /\ nanWarnings' = nanWarnings + (IF Warns(ev.hasNan, warned) THEN 1 ELSE 0)
  /\ warnAtolRtol' = (warned \/ Warns(ev.hasNan, warned))
  /\ nanCalls' = nanCalls + (IF ev.hasNan THEN 1 ELSE 0)
  /\ nEval' = [nEval EXCEPT ![slot] = @ + 1]

\* ------------------------------------------------------------ likelihood
Abs(x) == IF x < 0 THEN 0 - x ELSE x

\* The value of _powerD for endpoint b (saem.cpp:806-808, 1900-1902): x itself
\* for an untransformed endpoint (yj = 2), Box-Cox with lambda = 1 otherwise.
PowerD(x, b) == IF cfg.yj[b] = 2 THEN x ELSE x - 1

\* handleF (saem.cpp:70-81); xmin = 1e-200 is carried as 0.
handleF(powt, ft, f, trunc, adjustF) ==
  LET fa == IF powt # 0 THEN ft ELSE f
      adj == IF adjustF /\ fa = 0 THEN 1 ELSE fa
  IN IF trunc /\ adj < 0 THEN 0 ELSE adj

\* "if (g < xmin) g = xmin; if (g > xmax) g = xmax" (saem.cpp:121-122, 817-818,
\* 1907-1908).  xmin = 1e-200 is carried as 0, the value below every positive
\* integer; no value of the model reaches xmax = 1e300.
ClampG(g) == IF g <= 0 THEN 0 ELSE g

\* g = vecares + vecbres % abs(fT), with zero replaced by one and the result
\* clamped (saem.cpp:815-818, 1905-1908).
ScaleOf(b, fT) ==
  LET g == ares[b] + bres[b] * Abs(fT)
  IN ClampG(IF g = 0 THEN 1 ELSE g)

\* The term of an observation whose likelihood contribution is not a number.
NaNTerm == <<0, 0>>

\* The contribution DYF of observation o at the head of the iteration
\* (saem.cpp:798-826), computed from the cached prediction f.  For the normal
\* distribution the contribution 0.5*((yt-ft)/g)^2 + log(g) is carried as the
\* pair <<|yt-ft|, g>>; for the Poisson distribution -y*log(f) + f is carried
\* as <<y, f>>; the binomial -y*log(f) - (1-y)*log(1-f) is not a number at the
\* integer predictions f >= 1 of this model.
DYFHead(f, o) ==
  LET b == cfg.ix_endpnt[o]
      ft == PowerD(f, b)
      yt == PowerD(cfg.yM[o], b)
      ftT == handleF(cfg.propT[b], ft, f, FALSE, TRUE)
  IN CASE cfg.distribution = 1 -> <<Abs(yt - ft), ScaleOf(b, ftT)>>
       [] cfg.distribution = 2 -> <<cfg.yM[o], f>>
       [] OTHER -> NaNTerm

\* The contribution DYF of observation o in do_mcmc (saem.cpp:1894-1920),
\* computed from the proposal's prediction fs: fc is the transformed
\* prediction, and handleF is given fs first and fc second.
DYFProposal(fs, o) ==
  LET b == cfg.ix_endpnt[o]
      fc == PowerD(fs, b)
      yt == PowerD(cfg.yM[o], b)
      fcT == handleF(cfg.propT[b], fs, fc, FALSE, TRUE)
  IN CASE cfg.distribution = 1 -> <<Abs(yt - fc), ScaleOf(b, fcT)>>
       [] cfg.distribution = 2 -> <<cfg.yM[o], fc>>
       [] OTHER -> NaNTerm

\* The observations of row r in order.
Window(r) == [k \in 1..(cfg.ix_idM[r][2] - cfg.ix_idM[r][1] + 1) |->
                cfg.ix_idM[r][1] + k - 1]

\* U_y = sum(DYF, 0) at the head of the iteration (saem.cpp:832): per row, the
\* contributions of its observations.
HeadU_y(f) == [r \in Rows |-> LET w == Window(r)
                              IN [k \in DOMAIN w |-> DYFHead(f[w[k]], w[k])]]

\* Uc_y = sum(DYF, 0) of a proposal with predictions fs (saem.cpp:1923).
ProposalU_y(fs) == [r \in Rows |-> LET w == Window(r)
                                   IN [k \in DOMAIN w |-> DYFProposal(fs[w[k]], w[k])]]

\* x["mlen"] (saem.cpp:617): the largest number of observations of a row.
MlenOf(windows) ==
  CHOOSE n \in {w[2] - w[1] + 1 : w \in Range(windows)} :
    \A w \in Range(windows) : w[2] - w[1] + 1 <= n

mlen == MlenOf(cfg.ix_idM)

\* The cells of DYF = zeros<mat>(mlen, nM) (saem.cpp:673), column-major.
Cells == 1..(mlen * nM)

\* A cell that holds the zero it was created with.
ZeroCell == <<>>

\* x["indioM"] (saem.cpp:616): the cell of observation o, its position in its
\* row's window within the row's column.
indioM(o) == (RowOfObs(o) - 1) * mlen + (o - cfg.ix_idM[RowOfObs(o)][1] + 1)

\* fcMat.col(1) and fcMat.col(2) (saem.cpp:760-762, 1890-1892): the censoring
\* flag and the limit the evaluator reports for observation o.
CensOf(o) == IF o \in cfg.censored THEN 1 ELSE 0

Limit == 0

\* limitT[i] = _powerD(limit[i], ...) (saem.cpp:806, 1900).
LimitT(o) == PowerD(Limit, cfg.ix_endpnt[o])

\* doCensNormal1 (censEst.h): the likelihood lik as it is for an uncensored
\* observation, and for a censored one the log-probability from the Normal
\* CDF, a function of the flag, the observation, the limit, the prediction and
\* the scale, carried as the tuple of these.
doCensNormal1(cens, dv, limit, lik, pred, sd) ==
  IF cens = 0 THEN lik ELSE <<cens, dv, limit, pred, sd>>

\* A cell that holds a censored contribution.
IsCensTerm(t) == Len(t) = 5

\* doCens (saem.cpp:1848-1852): for every j below cens.size(), the cell with
\* the linear index j is replaced by doCensNormal1 of the data of observation j
\* and of what that cell holds.
doCens(cells, fc, r) ==
  [c \in Cells |->
     IF c \in Obs
     THEN doCensNormal1(CensOf(c), cfg.yM[c], LimitT(c), cells[c], fc[c], r[c])
     ELSE cells[c]]

\* DYF(indioM) = terms (saem.cpp:820, 823, 825, 1912, 1915, 1918).
AssignDYF(cells, terms) ==
  [c \in Cells |->
     IF \E o \in Obs : indioM(o) = c
     THEN terms[CHOOSE o \in Obs : indioM(o) = c]
     ELSE cells[c]]

\* g at the head of the iteration (saem.cpp:809-818) and gc in do_mcmc
\* (saem.cpp:1903-1908) for observation o.
HeadG(f, o) ==
  LET b == cfg.ix_endpnt[o]
  IN ScaleOf(b, handleF(cfg.propT[b], PowerD(f, b), f, FALSE, TRUE))

ProposalG(fs, o) ==
  LET b == cfg.ix_endpnt[o]
  IN ScaleOf(b, handleF(cfg.propT[b], fs, PowerD(fs, b), FALSE, TRUE))

\* DYF after the likelihood block at the head of the iteration
\* (saem.cpp:797-826): the censoring adapter runs for the normal distribution
\* only, and is given the cached predictions f as they are.
HeadDYF(cells, f) ==
  LET a == AssignDYF(cells, [o \in Obs |-> DYFHead(f[o], o)])
  IN IF cfg.distribution = 1
     THEN doCens(a, f, [o \in Obs |-> HeadG(f[o], o)])
     ELSE a

\* DYF after the likelihood block of do_mcmc (saem.cpp:1894-1921): the
\* censoring adapter runs for every distribution, and is given the
\* transformed predictions fc.
ProposalDYF(cells, fs) ==
  doCens(AssignDYF(cells, [o \in Obs |-> DYFProposal(fs[o], o)]),
         [o \in Obs |-> PowerD(fs[o], cfg.ix_endpnt[o])],
         [o \in Obs |-> ProposalG(fs[o], o)])

\* sum(DYF, 0) for row r (saem.cpp:832, 1923): the cells of column r that hold
\* the row's observations, followed by those of its other cells that no
\* longer hold zero.
ColumnSum(cells, r) ==
  LET n == Len(Window(r))
      at(k) == cells[(r - 1) * mlen + k]
  IN [k \in 1..n |-> at(k)]
       \o SelectSeq([k \in 1..(mlen - n) |-> at(n + k)], LAMBDA t : t # ZeroCell)

\* The sign of Uc - U for two rows of contributions: "zero" when they are the
\* same, "pos" ("neg") when the normal contributions of Uc are nowhere smaller
\* (larger) in scale and in standardized residual, "nan" when one of them is
\* not a number, "unknown" when the integers carried do not decide it.
SignOf(U, Uc) ==
  LET K == DOMAIN U
      up(k) == Uc[k][2] >= U[k][2] /\ Uc[k][1] * U[k][2] >= U[k][1] * Uc[k][2]
      dn(k) == Uc[k][2] <= U[k][2] /\ Uc[k][1] * U[k][2] <= U[k][1] * Uc[k][2]
  IN IF \E k \in K : U[k] = NaNTerm THEN "nan"
     ELSE IF \E k \in DOMAIN Uc : Uc[k] = NaNTerm THEN "nan"
     ELSE IF U = Uc THEN "zero"
     ELSE IF cfg.distribution # 1 THEN "unknown"
     ELSE IF DOMAIN Uc # K THEN "unknown"
     ELSE IF \E k \in K : IsCensTerm(U[k]) \/ IsCensTerm(Uc[k]) THEN "unknown"
     ELSE IF \A k \in K : up(k) THEN "pos"
     ELSE IF \A k \in K : dn(k) THEN "neg"
     ELSE "unknown"

\* The sign of deltu for row r of proposal p (saem.cpp:1924-1931).  The block
\* kernel has deltu = Uc_y - U_y.  The other kernels add Uc_phi - U_phi, the
\* same quadratic form of the proposed and of the current row: zero when
\* the proposal leaves the row as it is, not decided by the model otherwise.
DeltuSign(p, phiMc, Uc, r) ==
  LET i == SubsetCols(p.s)
      sy == SignOf(U_y[r], Uc[r])
  IN IF sy = "nan" \/ p.method = 1 THEN sy
     ELSE IF \A j \in 1..Len(i) : phiMc[r][i[j]] = phiM[r][i[j]] THEN sy
     ELSE "unknown"

\* The sets find(deltu < -log(randu)) can be (saem.cpp:1933): -log(U) is any
\* positive number, so a row with deltu <= 0 is in the set, a row whose deltu
\* is not a number is not, and any other row may or may not be.
AcceptSets(sign) ==
  {acc \in SUBSET Rows :
     \A r \in Rows : /\ sign[r] \in {"neg", "zero"} => r \in acc
                     /\ sign[r] = "nan" => r \notin acc}

\* One pass of do_mcmc's loop body: propose, evaluate, accept (saem.cpp:1872-1940).
McmcStep ==
  /\ pc = "SampleE"
  /\ mcNext # NoProposal
  /\ LET p == mcNext
         i == SubsetCols(p.s)
     IN \E z \in [Rows -> [1..Len(i) -> Noise]], nbad \in 0..cfg.maxBad :
        \E phiMc \in {Propose(p, z)} :
          /\ \A r \in Rows, c \in Cols : phiMc[r][c] \in PhiVals
          /\ \E ev \in {user_function(phiMc, nbad)} :
             \E cells \in {ProposalDYF(DYF, ev.g)} :
             \E Uc \in {[r \in Rows |-> ColumnSum(cells, r)]} :
             \E acc \in AcceptSets([r \in Rows |-> DeltuSign(p, phiMc, Uc, r)]) :
             \E obs \in {getObsIdx({cfg.ix_idM[r] : r \in acc})} :
               /\ phiM' = AcceptRows(phiM, phiMc, acc, i)
               /\ DYF' = cells
               /\ U_y' = [r \in Rows |-> IF r \in acc THEN Uc[r] ELSE U_y[r]]
               /\ fsave' = [o \in Obs |-> IF o \in obs THEN ev.g[o] ELSE fsave[o]]
               /\ ind' = acc
               /\ Called(ev, IF p.s = 1 THEN "s1" ELSE "s0", warnAtolRtol)
               /\ mc' = p
               /\ mcNext' = NextProposal(p, kiter)
  /\ UNCHANGED <<cfg, statVars, engineVars, popVars, resVars>>

\* A variant that dumps the chain state only in the first iteration.
EndSampleEDumpFirstOnly ==
  /\ pc = "SampleE"
  /\ mcNext = NoProposal
  /\ phiDumps' = IF kiter = 0 THEN phiDumps + 1 ELSE phiDumps
  /\ phaseCount' = [phaseCount EXCEPT !["SampleE"] = @ + 1]
  /\ pc' = NextPhase("SampleE")
  /\ UNCHANGED <<cfg, statVars, kiter, err, out, par_hist, mcmcVars, popVars, resVars>>

\* After the last do_mcmc call the chain state is dumped: phiFile << phiM
\* (saem.cpp:850-851).
EndSampleE ==
  /\ pc = "SampleE"
  /\ mcNext = NoProposal
  /\ phiDumps' = phiDumps + 1
  /\ phaseCount' = [phaseCount EXCEPT !["SampleE"] = @ + 1]
  /\ pc' = NextPhase("SampleE")
  /\ UNCHANGED <<cfg, statVars, kiter, err, out, par_hist, mcmcVars, popVars, resVars>>

\* ------------------------------------------------- population parameters
\* Factors below one (coef_sa, coef_phi0, pas(k)) are carried in halves:
\* h = 1 is 0.5 and h = 2 is 1.0.
Halves(h, x) == (h * x) \div 2

\* Symmetric n x n matrices over the covariance values: the moment estimates
\* G1 (saem.cpp:996) and the covariate-only estimate (saem.cpp:1020).
SymMats(n) ==
  {m \in [1..n -> [1..n -> VarVals]] : \A a \in 1..n, b \in 1..n : m[a][b] = m[b][a]}

\* minv(i1) / minv(i0): the per-dimension minimum of the j-th column of a subset.
Gmin(i, j) == cfg.minv[i[j]]

\* A variant without the floor.
NoFloorDiag(G, i) == G

\* The diagonal floor (saem.cpp:1003-1007, 1021-1025).
FloorDiag(G, i) ==
  [a \in DOMAIN G |-> [b \in DOMAIN G |->
     IF a = b /\ G[a][a] < Gmin(i, a) THEN Gmin(i, a) ELSE G[a][b]]]

\* diagmat(.) of a matrix.
diagmat(G) == [a \in DOMAIN G |-> [b \in DOMAIN G |-> IF a = b THEN G[a][b] ELSE 0]]

\* A variant without the fixed-element override.
UpdateGamma2_phi1NoOverride(k, G, g1) ==
  LET D == DOMAIN G
      annealed == IF k <= cfg.nb_sa
                  THEN [a \in D |-> [b \in D |->
                         Max2(Halves(cfg.coef_sa, G[a][b]), diagmat(g1)[a][b])]]
                  ELSE g1
      masked == [a \in D |-> [b \in D |-> annealed[a][b] * cfg.covstruct1[a][b]]]
      floored == FloorDiag(masked, cfg.i1)
  IN IF k <= cfg.nb_correl THEN diagmat(floored) ELSE floored

\* A variant that anneals in the iterations before nb_sa only.
UpdateGamma2_phi1AnnealBefore(k, G, g1) ==
  LET D == DOMAIN G
      annealed == IF k < cfg.nb_sa
                  THEN [a \in D |-> [b \in D |->
                         Max2(Halves(cfg.coef_sa, G[a][b]), diagmat(g1)[a][b])]]
                  ELSE g1
      masked == [a \in D |-> [b \in D |-> annealed[a][b] * cfg.covstruct1[a][b]]]
      floored == FloorDiag(masked, cfg.i1)
      fixed == IF cfg.Gamma2_phi1fixed = 1 /\ k > cfg.nb_fixOmega
               THEN [a \in D |-> [b \in D |->
                      IF cfg.Gamma2_phi1fixedIx[a][b] = 1
                      THEN cfg.Gamma2_phi1fixedValues[a][b] ELSE floored[a][b]]]
               ELSE floored
  IN IF k <= cfg.nb_correl THEN diagmat(fixed) ELSE fixed

\* Gamma2_phi1 after the update of iteration k from the moment estimate G1
\* (saem.cpp:996-1015).
UpdateGamma2_phi1(k, G, g1) ==
  LET D == DOMAIN G
      annealed == IF k <= cfg.nb_sa
                  THEN [a \in D |-> [b \in D |->
                         Max2(Halves(cfg.coef_sa, G[a][b]), diagmat(g1)[a][b])]]
                  ELSE g1
      masked == [a \in D |-> [b \in D |-> annealed[a][b] * cfg.covstruct1[a][b]]]
      floored == FloorDiag(masked, cfg.i1)
      fixed == IF cfg.Gamma2_phi1fixed = 1 /\ k > cfg.nb_fixOmega
               THEN [a \in D |-> [b \in D |->
                      IF cfg.Gamma2_phi1fixedIx[a][b] = 1
                      THEN cfg.Gamma2_phi1fixedValues[a][b] ELSE floored[a][b]]]
               ELSE floored
  IN IF k <= cfg.nb_correl THEN diagmat(fixed) ELSE fixed

\* dGamma2_phi0 after the update of iteration k (saem.cpp:1018-1029): the
\* floored diagonal of the estimate G0 up to niter_phi0, a geometric decay after.
UpdatedGamma2_phi0(k, d, G0) ==
  IF k <= cfg.niter_phi0
  THEN LET est == FloorDiag(G0, cfg.i0) IN [a \in DOMAIN G0 |-> est[a][a]]
  ELSE [a \in DOMAIN d |-> Halves(cfg.coef_phi0, d[a])]

\* A variant that does not reinsert the fixed coefficients.
UpdateMCOVNoReinsert(cur, sol) ==
  [c \in Cols |-> IF c \in DOMAIN sol THEN sol[c] ELSE 1 - cur[c]]

\* The coefficient update with the fixed coefficients reinserted
\* (saem.cpp:979-991); sol is the solution of the normal equations.
UpdateMCOV(cur, sol) ==
  [c \in Cols |->
     IF c \in cfg.fixedIx THEN cur[c] ELSE sol[c]]

\* The coefficients that are not fixed.
FreeCols == Cols \ cfg.fixedIx

\* ------------------------------------------------------- residual models
\* The parameters a residual-model variant fits, in slot order, as the
\* fit-time switch reads resFixed/resValue at offsetR + slot (saem.cpp:1037-1646).
FitParams(v) ==
  CASE v = rmAdd -> <<"a">>
    [] v = rmProp -> <<"b">>
    [] v = rmPow -> <<"b", "c">>
    [] v = rmAddProp -> <<"a", "b">>
    [] v = rmAddPow -> <<"a", "b", "c">>
    [] v = rmAddLam -> <<"a", "l">>
    [] v = rmPropLam -> <<"b", "l">>
    [] v = rmPowLam -> <<"b", "c", "l">>
    [] v = rmAddPropLam -> <<"a", "b", "l">>
    [] v = rmAddPowLam -> <<"a", "b", "c", "l">>

\* A variant of the assembly switch that stores the power variant's two
\* parameters in the opposite order.
AsmParamsPowSwapped(v) ==
  CASE v = rmAdd -> <<"a">>
    [] v = rmProp -> <<"b">>
    [] v = rmPow -> <<"c", "b">>
    [] v = rmAddProp -> <<"a", "b">>
    [] v = rmAddPow -> <<"a", "b", "c">>
    [] v = rmAddLam -> <<"a", "l">>
    [] v = rmPropLam -> <<"b", "l">>
    [] v = rmPowLam -> <<"b", "c", "l">>
    [] v = rmAddPropLam -> <<"a", "b", "l">>
    [] v = rmAddPowLam -> <<"a", "b", "c", "l">>

\* The parameters the result-assembly switch stores at vcsig2[offset + slot]
\* (saem.cpp:1669-1717).
AsmParams(v) ==
  CASE v = rmAdd -> <<"a">>
    [] v = rmProp -> <<"b">>
    [] v = rmPow -> <<"b", "c">>
    [] v = rmAddProp -> <<"a", "b">>
    [] v = rmAddPow -> <<"a", "b", "c">>
    [] v = rmAddLam -> <<"a", "l">>
    [] v = rmPropLam -> <<"b", "l">>
    [] v = rmPowLam -> <<"b", "c", "l">>
    [] v = rmAddPropLam -> <<"a", "b", "l">>
    [] v = rmAddPowLam -> <<"a", "b", "c", "l">>

\* The residual parameters of endpoint b as a record.
ResOf(b) == [a |-> ares[b], b |-> bres[b], c |-> cres[b], l |-> lres[b]]

\* toPow / toLambda (saem.cpp:83, 86): the inverse of the bounded
\* reparametrization, onto (-range, range).
toPow(x) == Max2(0 - cfg.powRange, Min2(cfg.powRange, x))

toLambda(x) == Max2(0 - cfg.lambdaRange, Min2(cfg.lambdaRange, x))

\* The natural-scale candidate of a returned coordinate x for parameter nm.
Candidate(nm, x) ==
  CASE nm \in {"a", "b"} -> x * x
    [] nm = "c" -> toPow(x)
    [] OTHER -> toLambda(x)

\* param + pas(kiter)*(candidate - param).
Blend(param, cand, k) == param + Halves(cfg.pas[k + 1], cand - param)

\* Whether slot j of endpoint b is fixed: resFixed[offsetR + j] == 1.
SlotFixed(b, j) == cfg.resFixed[cfg.res_offset[b] + j] = 1

SlotValue(b, j) == cfg.resValue[cfg.res_offset[b] + j]

\* A variant that blends a fixed slot like a free one.
FitSlotIgnoringFixed(b, k, cur, j, est, x) ==
  LET v == cfg.res_mod[b]
      nm == FitParams(v)[j]
  IN IF v \in {rmAdd, rmProp}
     THEN (IF v = rmProp /\ est = 0 THEN 1 ELSE est)
     ELSE Blend(cur[nm], Candidate(nm, x[j]), k)

\* The value slot j of endpoint b holds after the fit of iteration k, from the
\* current values cur, the moment estimate est = sqrt(sig2) and the vector x
\* the minimizer left in pxmin (one case of the switch, saem.cpp:1037-1646).
FitSlot(b, k, cur, j, est, x) ==
  LET v == cfg.res_mod[b]
      nm == FitParams(v)[j]
      post == k > cfg.nb_fixResid
      \* curi: the free slots before j, plus one
      curi == 1 + Cardinality({jj \in 1..(j - 1) : ~SlotFixed(b, jj)})
  IN IF v \in {rmAdd, rmProp}
     THEN IF SlotFixed(b, j) /\ post THEN SlotValue(b, j)
          ELSE IF v = rmProp /\ est = 0 THEN 1 ELSE est
     ELSE IF post
          THEN IF SlotFixed(b, j) THEN SlotValue(b, j)
               ELSE Blend(cur[nm], Candidate(nm, x[curi]), k)
          ELSE IF v = rmPow /\ j = 1
               THEN Blend(cur[nm], x[1] * x[2], k)
               ELSE Blend(cur[nm], Candidate(nm, x[j]), k)

\* The residual parameters of endpoint b after the fit of iteration k.
FitEndpoint(b, k, est, x) ==
  LET ps == FitParams(cfg.res_mod[b])
      cur == ResOf(b)
  IN [nm \in {"a", "b", "c", "l"} |->
       IF \E j \in 1..Len(ps) : ps[j] = nm
       THEN FitSlot(b, k, cur, CHOOSE j \in 1..Len(ps) : ps[j] = nm, est, x)
       ELSE cur[nm]]

\* vcsig2 as the result-assembly switch fills it: one entry per slot of every
\* endpoint's block.
vcsig2 ==
  Flatten([b \in Endpoints |->
    [j \in 1..Len(AsmParams(cfg.res_mod[b])) |-> ResOf(b)[AsmParams(cfg.res_mod[b])[j]]]])

\* resKeep = find(resFixed == 0) (saem.cpp:599), applied to vcsig2 (saem.cpp:1724).
RECURSIVE KeepFree(_, _)
KeepFree(v, j) ==
  IF j > Len(v) THEN <<>>
  ELSE (IF cfg.resFixed[j] = 0 THEN <<v[j]>> ELSE <<>>) \o KeepFree(v, j + 1)

\* The history row pl of the current iteration (saem.cpp:1718-1725).
HistoryRow ==
  <<MCOV, [a \in DOMAIN Gamma2_phi1 |-> Gamma2_phi1[a][a]], KeepFree(vcsig2, 1)>>

\* ------------------------------------------------------ iteration engine
\* No List has been returned to the caller.
NoResult == [given |-> FALSE, resMat |-> <<>>, Gamma2_phi1 |-> <<>>, par_hist |-> <<>>]

\* "_warnAtolRtol = false" and fsaveMat = user_fn(phiM, evtM, optM) before the
\* loop (saem.cpp:753-766).
InitialEval ==
  /\ pc = "init"
  /\ \E nbad \in 0..cfg.maxBad :
       LET ev == user_function(phiM, nbad)
       IN /\ fsave' = ev.g
          /\ Called(ev, "init", FALSE)
  /\ pc' = "iter_head"
  /\ UNCHANGED <<cfg, statVars, kiter, err, out, phaseCount, par_hist, phiDumps,
                 phiM, mcNext, mc, ind, U_y, DYF, popVars, resVars>>

\* The loop test and the head of the body up to the distribution switch
\* (saem.cpp:767-832): leave the loop at niter, return from SAEM::saem_fit on an
\* unknown distribution, start the E-step otherwise.
IterHead ==
  /\ pc = "iter_head"
  /\ IF kiter >= cfg.niter
     THEN pc' = "fit_done" /\ UNCHANGED <<U_y, DYF, nEval>>
     ELSE IF cfg.distribution \notin {1, 2, 3}
          THEN pc' = "fit_done" /\ UNCHANGED <<U_y, DYF, nEval>>
          ELSE /\ pc' = "SampleE"
               /\ DYF' = HeadDYF(DYF, fsave)
               /\ U_y' = [r \in Rows |-> ColumnSum(DYF', r)]
               /\ nEval' = [nEval EXCEPT !.s1 = 0, !.s0 = 0]
  /\ mcNext' = FirstFrom(1, 1, kiter)
  /\ UNCHANGED <<cfg, statVars, kiter, err, out, phaseCount, par_hist, phiDumps,
                 phiM, mc, ind, fsave, fcKind, atolRtol, solves,
                 warnAtolRtol, nanWarnings, nanCalls, popVars, resVars>>

\* The observations of endpoint b in chain k (saem.cpp:892-899): chain k holds
\* the rows (k-1)*N+1 .. k*N.
ChainObs(b, k) ==
  {o \in Obs : cfg.ix_endpnt[o] = b /\ (RowOfObs(o) - 1) \div cfg.N = k - 1}

\* resid(i) of observation o (saem.cpp:900-915): the transformed observation
\* minus the transformed prediction, over fa for the proportional model; as
\* the fraction <<resid, fa>>.
ResidOf(o) ==
  LET b == cfg.ix_endpnt[o]
      ft == PowerD(fsave[o], b)
      fa == handleF(cfg.propT[b], ft, fsave[o], TRUE, TRUE)
  IN <<PowerD(cfg.yM[o], b) - ft,
       IF cfg.res_mod[b] = rmProp THEN (IF fa <= 0 THEN 1 ELSE fa) ELSE 1>>

\* dot(resid, resid) over the observations os, as a fraction.
RECURSIVE DotOf(_)
DotOf(os) ==
  IF os = {} THEN <<0, 1>>
  ELSE LET o == CHOOSE x \in os : TRUE
           r == ResidOf(o)
           rest == DotOf(os \ {o})
       IN <<rest[1] * r[2] * r[2] + r[1] * r[1] * rest[2], rest[2] * r[2] * r[2]>>

\* resk of endpoint b in chain k (saem.cpp:923-933): the sum of squares for the
\* additive and the proportional model, 1 for every other.  Its lower bound
\* xmin = 1e-200 is carried as 0.
Resk(b, k) ==
  IF cfg.res_mod[b] <= rmProp THEN DotOf(ChainObs(b, k)) ELSE <<1, 1>>

\* resy(k) after the endpoints b..nendpnt of the endpoint loop, cur being what
\* it held before: every endpoint assigns "resy(k) = resk" (saem.cpp:897-937).
RECURSIVE ResyAfter(_, _, _)
ResyAfter(b, k, cur) ==
  IF b > cfg.nendpnt THEN cur ELSE ResyAfter(b + 1, k, Resk(b, k))

\* A variant that finds the NaN only after the statistics are smoothed.
UpdateStatisticsLateCheck ==
  /\ pc = "UpdateStatistics"
  /\ phaseCount' = [phaseCount EXCEPT !["UpdateStatistics"] = @ + 1]
  /\ IF cfg.nmc > 0 /\ cfg.nanEndpnt # {}
     THEN err' = "nan" /\ pc' = "aborted"
     ELSE err' = err /\ pc' = NextPhase("UpdateStatistics")
  /\ resy' = [k \in 1..cfg.nmc |-> ResyAfter(1, k, <<0, 1>>)]
  /\ UNCHANGED <<cfg, kiter, out, par_hist, phiDumps, mcmcVars, popVars, resVars>>

\* The integration loop and the smoothing of the statistics (saem.cpp:855-976).
\* Rcpp::stop leaves the loop when the transform of an observation is NaN
\* (saem.cpp:903-906), before statphi11, statphi12, statphi01, statphi02 and
\* statrese are smoothed (saem.cpp:969-976).
UpdateStatistics ==
  /\ pc = "UpdateStatistics"
  /\ IF cfg.nmc > 0 /\ cfg.nanEndpnt # {}
     THEN /\ err' = "nan"
          /\ pc' = "aborted"
          /\ UNCHANGED <<phaseCount, resy>>
     ELSE /\ phaseCount' = [phaseCount EXCEPT !["UpdateStatistics"] = @ + 1]
          /\ pc' = NextPhase("UpdateStatistics")
          /\ resy' = [k \in 1..cfg.nmc |-> ResyAfter(1, k, <<0, 1>>)]
          /\ UNCHANGED err
  /\ UNCHANGED <<cfg, kiter, out, par_hist, phiDumps, mcmcVars, popVars, resVars>>

\* Coefficients, prior means and the two covariance matrices of iteration k
\* (saem.cpp:978-1031).  sol is the solution of the normal equations at the
\* coefficients that are not fixed (the fixed ones are overwritten), G1 and
\* G0 are the moment estimates; all three depend on the smoothed statistics.
PopulationUpdate(k) ==
  \E sol \in [FreeCols -> CoefVals], g1 \in SymMats(nphi1), G0 \in SymMats(nphi0) :
    /\ MCOV' = UpdateMCOV(MCOV, sol)
    /\ G1' = g1
    /\ Gamma2_phi1' = UpdateGamma2_phi1(k, Gamma2_phi1, g1)
    /\ IF nphi0 > 0
       THEN /\ dGamma2_phi0' = UpdatedGamma2_phi0(k, dGamma2_phi0, G0)
            /\ Gamma2_phi0' = [a \in 1..nphi0 |-> [b \in 1..nphi0 |->
                                 IF a = b THEN dGamma2_phi0'[a] ELSE 0]]
       ELSE UNCHANGED <<Gamma2_phi0, dGamma2_phi0>>

UpdatePopulationParams ==
  /\ pc = "UpdatePopulationParams"
  /\ PopulationUpdate(kiter)
  /\ phaseCount' = [phaseCount EXCEPT !["UpdatePopulationParams"] = @ + 1]
  /\ pc' = NextPhase("UpdatePopulationParams")
  /\ UNCHANGED <<cfg, statVars, kiter, err, out, par_hist, phiDumps, mcmcVars, resVars>>

\* ------------------------------------------------- residual objectives
\* pow(x, p) for the exponents p >= 0 of the model.
RECURSIVE IPow(_, _)
IPow(x, p) == IF p <= 0 THEN 1 ELSE x * IPow(x, p - 1)

\* sqrt(n), rounded down.
Isqrt(n) == CHOOSE r \in 0..n : r * r <= n /\ n < (r + 1) * (r + 1)

\* log(x), rounded down, for x >= 1.
ILog(x) == IF x < 3 THEN 0 ELSE IF x < 8 THEN 1 ELSE IF x < 21 THEN 2 ELSE 3

\* _powerD(x, lam, yj(b), low, hi) as the objectives call it (saem.cpp:111-112,
\* 227-228): x itself for an untransformed endpoint (yj = 2), Box-Cox with
\* lambda lam otherwise: x - 1 for lam = 1, log(x) for lam = 0.
PowerDAt(x, lam, b) ==
  IF cfg.yj[b] = 2 THEN x ELSE IF lam = 1 THEN x - 1 ELSE ILog(x)

\* The coordinate the objective of endpoint b reads for slot j in iteration k
\* from the point x ("if (_saemFixedIdx[j] == 1) ab = _saemFixedValue[j]; else
\* ab = ab[curi++]", saem.cpp:96-106), as the natural-scale value the objective
\* makes of it: ab*ab for a scale, toPow(ab), toLambda(ab).  A fixed scale is
\* stored as sqrt(fabs(value)) and a fixed power or lambda as toPowEst(value),
\* toLambdaEst(value) (saem.cpp:1078-1081, 1167-1170).
ObjParam(b, k, j, x) ==
  LET nm == FitParams(cfg.res_mod[b])[j]
      post == k > cfg.nb_fixResid
      curi == 1 + Cardinality({jj \in 1..(j - 1) : ~SlotFixed(b, jj)})
  IN IF post /\ SlotFixed(b, j)
     THEN CASE nm \in {"a", "b"} -> Abs(SlotValue(b, j))
            [] nm = "c" -> toPow(SlotValue(b, j))
            [] OTHER -> toLambda(SlotValue(b, j))
     ELSE Candidate(nm, x[IF post THEN curi ELSE j])

\* The natural-scale parameters the objective of endpoint b works with at the
\* point x; a parameter the variant does not have is 0, and lambda is then the
\* endpoint's own (_saemLambda = lambda(b), 1 in this model).
ObjPoint(b, k, x) ==
  LET ps == FitParams(cfg.res_mod[b])
  IN [nm \in {"a", "b", "c", "l"} |->
       IF \E j \in 1..Len(ps) : ps[j] = nm
       THEN ObjParam(b, k, CHOOSE j \in 1..Len(ps) : ps[j] = nm, x)
       ELSE IF nm = "l" THEN 1 ELSE 0]

\* The scale g the objective of endpoint b computes for prediction f at the
\* parameters P, before its guards: obj (saem.cpp:115-120), objC (158-165),
\* objD (197-198), objE (229), objF (260-261), objG (299-300), objH (339-346),
\* objI (389-397).
ObjRawG(b, P, f) ==
  LET v == cfg.res_mod[b]
      ft == PowerDAt(f, P.l, b)
      fa == handleF(cfg.propT[b], ft, f, FALSE, v \in {rmPow, rmPropLam, rmPowLam})
      add == cfg.addProp[b] = 1
  IN CASE v \in {rmAddProp, rmAddPropLam} ->
            IF add THEN P.a + P.b * fa
            ELSE Isqrt(P.a * P.a + P.b * P.b * fa * fa)
       [] v = rmAddPow ->
            IF add THEN P.a + P.b * IPow(fa, P.c)
            ELSE P.a * P.a + P.b * P.b * IPow(fa, 2 * P.c)
       [] v = rmAddPowLam ->
            IF add THEN P.a + P.b * IPow(fa, P.c)
            ELSE Isqrt(P.a * P.a + P.b * P.b * IPow(fa, P.c) * IPow(fa, P.c))
       [] v \in {rmPow, rmPowLam} -> P.b * IPow(fa, P.c)
       [] v = rmAddLam -> P.a
       [] v = rmPropLam -> P.b * fa
       [] OTHER -> 0

\* The guards between the scale and its use as a divisor: "if (g == 0) g = 1"
\* in objF and objG only (saem.cpp:262, 301), the clamp in every objective
\* (saem.cpp:121-122, 166-167, 199-200, 230-231, 263-264, 302-303, 347-348,
\* 398-399).
ObjGuard(v, g) ==
  ClampG(IF v \in {rmPropLam, rmPowLam} /\ g = 0 THEN 1 ELSE g)

\* The observations of endpoint b.
ObsOf(b) == {o \in Obs : cfg.ix_endpnt[o] = b}

\* One evaluation of the objective of endpoint b in iteration k at the point
\* x: per observation of the endpoint, the scale computed and the divisor used.
ObjEval(b, k, x) ==
  LET P == ObjPoint(b, k, x)
  IN [o \in ObsOf(b) |->
        LET g == ObjRawG(b, P, fsave[o])
        IN [raw |-> g, g |-> ObjGuard(cfg.res_mod[b], g)]]

\* The start vector of endpoint b in iteration k, as the names of the
\* parameters it holds: every parameter of the variant up to the burn-in
\* threshold, the non-fixed ones in slot order after it ("start[curi++] = ...",
\* e.g. saem.cpp:1146-1175).  Its length is the n passed to _saemOpt.
RECURSIVE FreeFrom(_, _)
FreeFrom(b, j) ==
  IF j > Len(FitParams(cfg.res_mod[b])) THEN <<>>
  ELSE (IF SlotFixed(b, j) THEN <<>> ELSE <<FitParams(cfg.res_mod[b])[j]>>)
         \o FreeFrom(b, j + 1)

StartOf(b, k) ==
  IF k > cfg.nb_fixResid THEN FreeFrom(b, 1) ELSE FitParams(cfg.res_mod[b])

\* A variant of the adapter in which Nelder-Mead, when it does not converge,
\* is followed by the other minimizer.
SaemOptWithFallback(n, na, iconv) ==
  IF n = 0 THEN [path |-> "none", iconv |-> 0]
  ELSE IF n = 1 THEN [path |-> "optimize1", iconv |-> 0]
  ELSE IF cfg.type = 1
       THEN [path |-> IF iconv # 0 THEN "nelder+newuoa" ELSE "nelder", iconv |-> iconv]
  ELSE IF cfg.type = 2
       THEN IF na THEN [path |-> "newuoa+nelder", iconv |-> iconv]
            ELSE [path |-> "newuoa", iconv |-> 0]
  ELSE [path |-> "none", iconv |-> 0]

\* _saemOpt(n, pxmin) (saem.cpp:410-454): which minimizer runs.  na is
\* whether newuoa's value is NA, iconv the convergence flag nelder_fn reports
\* (the adapter does not read it).
SaemOpt(n, na, iconv) ==
  IF n = 0 THEN [path |-> "none", iconv |-> 0]
  ELSE IF n = 1 THEN [path |-> "optimize1", iconv |-> 0]
  ELSE IF cfg.type = 1 THEN [path |-> "nelder", iconv |-> iconv]
  ELSE IF cfg.type = 2
       THEN IF na THEN [path |-> "newuoa+nelder", iconv |-> iconv]
            ELSE [path |-> "newuoa", iconv |-> 0]
  ELSE [path |-> "none", iconv |-> 0]

\* What the fit of endpoint b reads in iteration k besides the current
\* parameters: est, the moment estimate sqrt(sig2) the additive and
\* proportional cases store (saem.cpp:1034, 1043, 1053); x, what pxmin holds
\* after the adapter call of the other cases, one coordinate per parameter of
\* the variant; na and iconv, the outcomes of the minimizers that run.
EndpointInputs(b, k) ==
  IF cfg.res_mod[b] \in {rmAdd, rmProp}
  THEN [est : XVals, x : {<<>>}, na : {FALSE}, iconv : {0}]
  ELSE LET n == Len(StartOf(b, k))
           nelder == n >= 2 /\ cfg.type \in {1, 2}
       IN [est : {0}, x : [1..Len(FitParams(cfg.res_mod[b])) -> XVals],
           na : IF n >= 2 /\ cfg.type = 2 THEN BOOLEAN ELSE {FALSE},
           iconv : IF nelder THEN {0, 1} ELSE {0}]

\* The inputs of the endpoints b, b + 1, ..., nendpnt, one record each.
RECURSIVE FitInputs(_, _)
FitInputs(b, k) ==
  IF b > cfg.nendpnt THEN {<<>>}
  ELSE {<<e>> \o rest : e \in EndpointInputs(b, k), rest \in FitInputs(b + 1, k)}

\* The length of the result vector of a variant: "vec xmin(2)" (saem.cpp:1069,
\* 1220, 1284, 1348, 1412, 1489, 1566), "vec xmin(3)" (1141); the additive and
\* proportional cases have none.
XminLen(v) ==
  CASE v \in {rmAdd, rmProp} -> 0
    [] v = rmAddPow -> 3
    [] OTHER -> 2

\* No adapter call.
NoCall ==
  [n |-> 0, start |-> <<>>, path |-> "none", iconv |-> 0,
   alloc |-> 0, written |-> 0, read |-> 0]

\* The adapter call of endpoint b in iteration k with outcomes e, and the
\* blend that follows it: a minimizer that runs writes pxmin[0..n-1]
\* (saem.cpp:420, 425-426, 444-445, 448-450), and the blend reads pxmin[0..n-1]
\* in both branches (e.g. saem.cpp:1458-1476).
AdapterCall(b, k, e) ==
  IF cfg.res_mod[b] \in {rmAdd, rmProp}
  THEN NoCall
  ELSE LET st == StartOf(b, k)
           run == SaemOpt(Len(st), e.na, e.iconv)
       IN [n |-> Len(st), start |-> st, path |-> run.path, iconv |-> run.iconv,
           alloc |-> XminLen(cfg.res_mod[b]),
           written |-> IF run.path = "none" THEN 0 ELSE Len(st),
           read |-> Len(st)]

\* The per-endpoint residual-model fit of iteration k (saem.cpp:1033-1652).
ResidualFit(k) ==
  \E in \in FitInputs(1, k) :
  \E new \in {[b \in Endpoints |-> FitEndpoint(b, k, in[b].est, in[b].x)]} :
    /\ ares' = [b \in Endpoints |-> new[b].a]
    /\ bres' = [b \in Endpoints |-> new[b].b]
    /\ cres' = [b \in Endpoints |-> new[b].c]
    /\ lres' = [b \in Endpoints |-> new[b].l]
    /\ pxmin' = [b \in Endpoints |-> in[b].x]
    /\ opt' = [b \in Endpoints |-> AdapterCall(b, k, in[b])]
    /\ objEval' = [b \in Endpoints |->
                    IF opt'[b].path = "none" \/ ObsOf(b) = {} THEN <<>>
                    ELSE ObjEval(b, k, in[b].x)]

FitResidualModels ==
  /\ pc = "FitResidualModels"
  /\ ResidualFit(kiter)
  /\ phaseCount' = [phaseCount EXCEPT !["FitResidualModels"] = @ + 1]
  /\ pc' = NextPhase("FitResidualModels")
  /\ UNCHANGED <<cfg, statVars, kiter, err, out, par_hist, phiDumps, mcmcVars, popVars>>

\* L, Ha, Hb, mpost_phi, cpost_phi (saem.cpp:1655-1666).
UpdateInformation ==
  /\ pc = "UpdateInformation"
  /\ phaseCount' = [phaseCount EXCEPT !["UpdateInformation"] = @ + 1]
  /\ pc' = NextPhase("UpdateInformation")
  /\ UNCHANGED <<cfg, statVars, kiter, err, out, par_hist, phiDumps, mcmcVars, popVars, resVars>>

\* A variant that checks for the interrupt before it writes the row.
LogIterationAfterCheck ==
  /\ pc = "LogIteration"
  /\ phaseCount' = [phaseCount EXCEPT !["LogIteration"] = @ + 1]
  /\ pc' = NextPhase("LogIteration")
  /\ UNCHANGED <<cfg, statVars, kiter, err, out, par_hist, phiDumps, mcmcVars, popVars, resVars>>

\* A variant that writes every iteration's values into the first row.
LogIterationFirstRow ==
  /\ pc = "LogIteration"
  /\ par_hist' = [par_hist EXCEPT ![1] = HistoryRow]
  /\ phaseCount' = [phaseCount EXCEPT !["LogIteration"] = @ + 1]
  /\ pc' = NextPhase("LogIteration")
  /\ UNCHANGED <<cfg, statVars, kiter, err, out, phiDumps, mcmcVars, popVars, resVars>>

\* par_hist.row(kiter) = pl.t() (saem.cpp:1668-1733).
LogIteration ==
  /\ pc = "LogIteration"
  /\ par_hist' = [par_hist EXCEPT ![kiter + 1] = HistoryRow]
  /\ phaseCount' = [phaseCount EXCEPT !["LogIteration"] = @ + 1]
  /\ pc' = NextPhase("LogIteration")
  /\ UNCHANGED <<cfg, statVars, kiter, err, out, phiDumps, mcmcVars, popVars, resVars>>

\* A variant in which a fired interrupt is noted and the loop goes on.
CheckUserInterruptNoAbort ==
  /\ pc = "CheckInterrupt"
  /\ \E fired \in BOOLEAN :
       /\ err' = IF fired THEN "interrupt" ELSE err
       /\ kiter' = kiter + 1
       /\ pc' = "iter_head"
  /\ UNCHANGED <<cfg, statVars, out, phaseCount, par_hist, phiDumps, mcmcVars, popVars, resVars>>

\* Rcpp::checkUserInterrupt() and the loop increment (saem.cpp:1734-1735):
\* a pending interrupt throws, otherwise the next iteration follows.
CheckUserInterrupt ==
  /\ pc = "CheckInterrupt"
  /\ \E fired \in BOOLEAN :
       IF fired
       THEN err' = "interrupt" /\ pc' = "aborted" /\ UNCHANGED kiter
       ELSE kiter' = kiter + 1 /\ pc' = "iter_head" /\ UNCHANGED err
  /\ UNCHANGED <<cfg, statVars, out, phaseCount, par_hist, phiDumps, mcmcVars, popVars, resVars>>

\* The exported saem_fit after saem.saem_fit() has returned: it builds the
\* result List from the object's getters and returns it (saem.cpp:2118-2135).
\* An exception thrown inside saem.saem_fit() passes through this function,
\* so nothing is returned then.
Return ==
  /\ pc = "fit_done"
  /\ out' = [given |-> TRUE,
             resMat |-> <<ares, bres, cres, lres>>,
             Gamma2_phi1 |-> Gamma2_phi1,
             par_hist |-> par_hist]
  /\ pc' = "returned"
  /\ UNCHANGED <<cfg, statVars, kiter, err, phaseCount, par_hist, phiDumps, mcmcVars, popVars, resVars>>

\* ---------------------------------------------------------- configurations
Ones(n) == [a \in 1..n |-> [b \in 1..n |-> 1]]

Zeros(n) == [a \in 1..n |-> [b \in 1..n |-> 0]]

Eye(n) == [a \in 1..n |-> [b \in 1..n |-> IF a = b THEN 1 ELSE 0]]

\* res_offset of every endpoint for a vector of variants: the blocks follow
\* one another, each as long as its variant's parameter list.
RECURSIVE Offsets(_, _)
Offsets(mods, at) ==
  IF mods = <<>> THEN <<>>
  ELSE <<at>> \o Offsets(Tail(mods), at + Len(FitParams(Head(mods))))

\* A configuration as SAEM::inits reads it (saem.cpp:579-746): one subject,
\* one chain, one estimated and one covariate-only random effect, one additive
\* endpoint, nothing fixed.
BaseCfg ==
  [distribution |-> 1, niter |-> MaxIter, nu |-> <<1, 1, 1>>,
   N |-> 1, nmc |-> 1, i1 |-> <<1>>, i0 |-> <<2>>,
   ue |-> <<<<1, 1>>>>, rmcmc |-> 1,
   pas |-> [k \in 1..MaxIter |-> IF k = 1 THEN 2 ELSE 1],
   minv |-> <<1, 1>>, fixedIx |-> {},
   nb_sa |-> 0, coef_sa |-> 1, nb_correl |-> 0,
   nb_fixOmega |-> 0, Gamma2_phi1fixed |-> 0,
   Gamma2_phi1fixedIx |-> Zeros(1), Gamma2_phi1fixedValues |-> Zeros(1),
   covstruct1 |-> Ones(1), niter_phi0 |-> 0, coef_phi0 |-> 1,
   nendpnt |-> 1, res_mod |-> <<rmAdd>>, res_offset |-> <<0>>, type |-> 1,
   resFixed |-> <<0>>, resValue |-> <<0>>, nb_fixResid |-> 0,
   resInit |-> [a |-> 1, b |-> 1, c |-> 1, l |-> 1],
   powRange |-> 1, lambdaRange |-> 1, nanEndpnt |-> {},
   yM |-> <<1>>, ix_idM |-> <<<<1, 1>>>>, ix_endpnt |-> <<1>>,
   propT |-> <<0>>, yj |-> <<2>>, addProp |-> <<1>>,
   maxOdeRecalc |-> 0, maxBad |-> 0, nanPred |-> {}, censored |-> {}]

\* The step schedule pas for n iterations: 1.0 first, 0.5 afterwards.
PasOf(n) == [k \in 1..n |-> IF k = 1 THEN 2 ELSE 1]

\* The state SAEM::inits leaves for configuration c (saem.cpp:579-746), with
\* the program at position at.
InitAt(c, at) ==
  /\ cfg = c
  /\ pc = at
  /\ kiter = 0
  /\ err = "none"
  /\ out = NoResult
  /\ phaseCount = [p \in PhaseSet |-> 0]
  /\ par_hist = [k \in 1..c.niter |-> <<>>]
  /\ phiDumps = 0
  /\ phiM = [r \in 1..(c.N * c.nmc) |-> [cc \in 1..(Len(c.i1) + Len(c.i0)) |-> 0]]
  /\ mcNext = NoProposal
  /\ mc = NoProposal
  /\ ind = {}
  /\ fsave = IF at = "init" THEN <<>>
             ELSE [o \in 1..Len(c.yM) |-> ReplaceNaN(saem_lhs(phiM, o))]
  /\ U_y = [r \in 1..(c.N * c.nmc) |-> <<>>]
  /\ DYF = [cell \in 1..(MlenOf(c.ix_idM) * c.N * c.nmc) |-> ZeroCell]
  /\ fcKind = IF at = "init" THEN <<>>
              ELSE [o \in 1..Len(c.yM) |-> IF fsave[o] = Penalty THEN "penalty" ELSE "num"]
  /\ nEval = [init |-> IF at = "init" THEN 0 ELSE 1, s1 |-> 0, s0 |-> 0]
  /\ atolRtol = 0
  /\ solves = <<>>
  /\ warnAtolRtol \in (IF at = "init" THEN BOOLEAN ELSE {FALSE})
  /\ nanWarnings = 0
  /\ nanCalls = 0
  /\ MCOV = [cc \in 1..(Len(c.i1) + Len(c.i0)) |-> 0]
  /\ G1 = <<>>
  /\ Gamma2_phi1 = Eye(Len(c.i1))
  /\ Gamma2_phi0 = Eye(Len(c.i0))
  /\ dGamma2_phi0 = <<>>
  /\ ares = [b \in 1..c.nendpnt |-> c.resInit.a]
  /\ bres = [b \in 1..c.nendpnt |-> c.resInit.b]
  /\ cres = [b \in 1..c.nendpnt |-> c.resInit.c]
  /\ lres = [b \in 1..c.nendpnt |-> c.resInit.l]
  /\ pxmin = [b \in 1..c.nendpnt |-> <<>>]
  /\ opt = [b \in 1..c.nendpnt |-> NoCall]
  /\ objEval = [b \in 1..c.nendpnt |-> <<>>]
  /\ resy = <<>>

\* The configurations of the engine runs: every distribution id, every
\* iteration count, with and without an observation whose transform is NaN.
EngineCfgs ==
  {[BaseCfg EXCEPT !.distribution = d, !.niter = n, !.pas = PasOf(n),
                   !.nanEndpnt = nan, !.fixedIx = {1, 2}] :
     d \in 1..4, n \in 0..MaxIter, nan \in {{}, {1}}}

Init == \E c \in EngineCfgs : InitAt(c, "init")

Next ==
  \/ InitialEval
  \/ IterHead
  \/ McmcStep
  \/ EndSampleE
  \/ UpdateStatistics
  \/ UpdatePopulationParams
  \/ FitResidualModels
  \/ UpdateInformation
  \/ LogIteration
  \/ CheckUserInterrupt
  \/ Return

Spec == Init /\ [][Next]_vars

\* ------------------------------------------------------------ E-step runs
\* Two subjects with one estimated and one covariate-only effect; the second
\* subject's covariate-only effect is masked out of the proposals.
TwoSubjectCfg(nus) ==
  [BaseCfg EXCEPT !.niter = 1, !.pas = PasOf(1), !.nu = nus, !.N = 2,
                  !.yM = <<1, 1, 1>>, !.ix_idM = <<<<1, 2>>, <<3, 3>>>>,
                  !.ix_endpnt = <<1, 1, 1>>,
                  !.ue = <<<<1, 1>>, <<1, 0>>>>, !.fixedIx = {1, 2}]

\* One subject with two estimated effects in columns 1 and 3 and a
\* covariate-only effect in column 2; column 2 is masked out.
ThreeEffectCfg(nus) ==
  [BaseCfg EXCEPT !.niter = 1, !.pas = PasOf(1), !.nu = nus,
                  !.i1 = <<1, 3>>, !.i0 = <<2>>, !.ue = <<<<1, 0, 1>>>>,
                  !.minv = <<1, 1, 1>>, !.fixedIx = {1, 2, 3},
                  !.Gamma2_phi1fixedIx = Zeros(2),
                  !.Gamma2_phi1fixedValues = Zeros(2), !.covstruct1 = Ones(2)]

\* The repetition counts nu of the E-step runs.
NuChoices == {<<1, 1, 1>>, <<MaxNu, 0, 1>>, <<0, 1, MaxNu>>}

\* Two iterations of one subject with an additive+proportional endpoint that
\* the optimizer fits, sampled by the diagonal kernel alone.
FittedScaleCfg ==
  [BaseCfg EXCEPT !.nu = <<0, 1, 0>>, !.ue = <<<<1, 0>>>>, !.fixedIx = {1, 2},
                  !.res_mod = <<rmAddProp>>,
                  !.resFixed = <<0, 0>>, !.resValue = <<0, 0>>]

McmcCfgs ==
  {TwoSubjectCfg(<<1, 1, 1>>), FittedScaleCfg}
    \cup {ThreeEffectCfg(nus) : nus \in NuChoices}

InitMcmc == \E c \in McmcCfgs : InitAt(c, "init")

\* One-iteration runs of the whole program on the E-step configurations.
SpecMcmc == InitMcmc /\ [][Next]_vars

\* ------------------------------------------------------------ E-step runs
\* The loop followed through its E-step alone: the blocks that follow read
\* phiM and fsave and write neither, and they call no evaluator, so with the
\* population and residual parameters left as they are the E-step of iteration
\* kiter + 1 starts from what the E-step of iteration kiter left.
SampleIteration ==
  /\ pc = "SampleE"
  /\ mcNext = NoProposal
  /\ phiDumps' = phiDumps + 1
  /\ phaseCount' = [phaseCount EXCEPT !["SampleE"] = @ + 1]
  /\ kiter' = kiter + 1
  /\ pc' = "iter_head"
  /\ UNCHANGED <<cfg, statVars, err, out, par_hist, mcmcVars, popVars, resVars>>

\* One iteration of one subject with one estimated and one covariate-only
\* effect.
SampleCfg(nus) ==
  [BaseCfg EXCEPT !.niter = 1, !.pas = PasOf(1), !.nu = nus, !.fixedIx = {1, 2}]

\* Two iterations with two estimated effects, of which the kernels move the
\* first only, and one covariate-only effect, under every choice of the
\* repetition counts.
CountCfgs ==
  {[ThreeEffectCfg(nus) EXCEPT !.niter = 2, !.pas = PasOf(2),
                               !.ue = <<<<1, 0, 0>>>>] : nus \in NuChoices}

\* Proposals scaled to zero (rmcmc = 0) in the diagonal and per-coordinate
\* kernels, with an observation that equals the prediction at the initial chain
\* state, for an untransformed (yj = 2) and a transformed additive+proportional
\* endpoint, with the proportional term on the untransformed (propT = 0) and on
\* the transformed (propT = 1) prediction.
ZeroScaleCfgs ==
  {[SampleCfg(<<0, 1, 1>>) EXCEPT !.rmcmc = 0, !.yM = <<PredAt(<<0, 0>>)>>,
                                  !.res_mod = <<rmAddProp>>,
                                  !.resFixed = <<0, 0>>, !.resValue = <<0, 0>>,
                                  !.yj = <<t>>, !.propT = <<pt>>] :
     t \in {2, 0}, pt \in {0, 1}}

\* Every re-solve budget, with an evaluator that reports up to one bad solve
\* more than the budget.
RecalcCfgs ==
  {[SampleCfg(<<0, 1, 0>>) EXCEPT !.maxOdeRecalc = m, !.maxBad = m + 1] :
     m \in 0..MaxRecalc}

\* A structural model that is NaN at the initial chain state or at a state
\* the kernels propose; the kernels move the estimated effect only.
NanCfgs ==
  {[SampleCfg(<<1, 1, 0>>) EXCEPT !.nanPred = np, !.ue = <<<<1, 0>>>>] :
     np \in {{PredAt(<<0, 0>>)}, {PredAt(<<0 - 1, 0>>)},
             {PredAt(<<0, 0>>), PredAt(<<0 - 1, 0>>)}}}

SampleCfgs == CountCfgs \cup ZeroScaleCfgs \cup RecalcCfgs \cup NanCfgs

InitSample == \E c \in SampleCfgs : InitAt(c, "init")

SpecSample ==
  InitSample /\ [][InitialEval \/ IterHead \/ McmcStep \/ SampleIteration]_vars

\* ------------------------------------------------------- censored runs
\* Two subjects with the observation windows wins, of which the observations
\* cs are censored, under the diagonal kernel, with an untransformed (t = 2) or
\* a transformed endpoint and distribution d; observation o has the value o,
\* and the kernel moves the estimated effect of the first subject only.
CensCfgOf(wins, cs, t, d) ==
  [BaseCfg EXCEPT !.niter = 1, !.pas = PasOf(1), !.nu = <<0, 1, 0>>, !.N = 2,
                  !.yM = [o \in 1..(wins[2][2]) |-> o], !.ix_idM = wins,
                  !.ix_endpnt = [o \in 1..(wins[2][2]) |-> 1],
                  !.ue = <<<<1, 0>>, <<0, 0>>>>, !.fixedIx = {1, 2},
                  !.censored = cs, !.yj = <<t>>, !.distribution = d]

\* Equal and unequal numbers of observations per subject, the longer subject
\* first or last, with every set of censored observations.
CensWindows ==
  {<<<<1, 1>>, <<2, 2>>>>, <<<<1, 2>>, <<3, 3>>>>, <<<<1, 1>>, <<2, 3>>>>}

CensCfgs ==
  {CensCfgOf(w, cs, t, d) :
     w \in CensWindows, cs \in SUBSET (1..3), t \in {2, 0}, d \in {1, 2}}

InitCens ==
  \E c \in CensCfgs : c.censored \subseteq 1..Len(c.yM) /\ InitAt(c, "init")

SpecCens ==
  InitCens /\ [][InitialEval \/ IterHead \/ McmcStep \/ SampleIteration]_vars

\* ------------------------------------------------- covariance-update runs
\* The loop followed through its population-parameter block alone: no other
\* block writes MCOV, Gamma2_phi1, Gamma2_phi0 or dGamma2_phi0, so the block of
\* iteration kiter + 1 starts from what the block of iteration kiter left.
CovIteration ==
  /\ pc = "UpdatePopulationParams"
  /\ kiter < cfg.niter
  /\ PopulationUpdate(kiter)
  /\ phaseCount' = [phaseCount EXCEPT !["UpdatePopulationParams"] = @ + 1]
  /\ kiter' = kiter + 1
  /\ UNCHANGED <<cfg, statVars, pc, err, out, par_hist, phiDumps, mcmcVars, resVars>>

\* Two estimated effects and one covariate-only effect, unit minima, with every
\* length of the annealing, correlation, fixed-covariance and covariate-only
\* burn-ins, with and without fixed elements (the second diagonal entry, fixed
\* at 0, below its minimum, and the off-diagonal pair, fixed at 1) and a
\* diagonal or full structure mask.
CovCfgs ==
  {[BaseCfg EXCEPT !.niter = MaxBurn + 2, !.pas = PasOf(MaxBurn + 2),
                   !.i1 = <<1, 2>>, !.i0 = <<3>>, !.ue = <<<<1, 1, 1>>>>,
                   !.minv = <<1, 1, 1>>, !.fixedIx = {1, 2, 3},
                   !.nb_sa = sa, !.nb_correl = co, !.nb_fixOmega = fo,
                   !.niter_phi0 = p0, !.Gamma2_phi1fixed = fx,
                   !.Gamma2_phi1fixedIx = <<<<0, 1>>, <<1, 1>>>>,
                   !.Gamma2_phi1fixedValues = <<<<0, 1>>, <<1, 0>>>>,
                   !.covstruct1 = cs] :
     sa \in 0..MaxBurn, co \in 0..MaxBurn, fo \in 0..MaxBurn, p0 \in 0..MaxBurn,
     fx \in {0, 1}, cs \in {Ones(2), Eye(2)}}

\* The same effects with no burn-in and every set of fixed coefficients.
CoefCfgs ==
  {[BaseCfg EXCEPT !.niter = MaxBurn + 2, !.pas = PasOf(MaxBurn + 2),
                   !.i1 = <<1, 2>>, !.i0 = <<3>>, !.ue = <<<<1, 1, 1>>>>,
                   !.minv = <<1, 1, 1>>, !.fixedIx = fi,
                   !.Gamma2_phi1fixedIx = Zeros(2),
                   !.Gamma2_phi1fixedValues = Zeros(2),
                   !.covstruct1 = Eye(2)] :
     fi \in SUBSET {1, 2, 3}}

InitCov == \E c \in CovCfgs \cup CoefCfgs : InitAt(c, "UpdatePopulationParams")

SpecCov == InitCov /\ [][CovIteration]_vars

\* --------------------------------------------------- residual-fit runs
\* The loop followed through its residual-fit block alone: no other block
\* writes ares, bres, cres or lres.
ResIteration ==
  /\ pc = "FitResidualModels"
  /\ kiter < cfg.niter
  /\ ResidualFit(kiter)
  /\ phaseCount' = [phaseCount EXCEPT !["FitResidualModels"] = @ + 1]
  /\ kiter' = kiter + 1
  /\ UNCHANGED <<cfg, statVars, pc, err, out, par_hist, phiDumps, mcmcVars, popVars>>

\* The number of residual slots of a layout.
NumSlots(mods) == SeqSum([b \in 1..Len(mods) |-> Len(FitParams(mods[b]))])

\* The configurations of one endpoint layout: every fixed mask, the given
\* number of iterations, lengths of the residual burn-in and the given minimizer types; slot j is
\* fixed at j + 2, a value no estimate starts from.  Every endpoint has one
\* observation, untransformed, with the terms of its scale added.
ResCfgsOf(mods, iters, burns, types) ==
  {[BaseCfg EXCEPT !.niter = iters, !.pas = PasOf(iters),
                   !.nendpnt = Len(mods), !.res_mod = mods,
                   !.res_offset = Offsets(mods, 0),
                   !.resFixed = fx,
                   !.resValue = [j \in 1..NumSlots(mods) |-> j + 2],
                   !.yM = [b \in 1..Len(mods) |-> 1],
                   !.ix_idM = <<<<1, Len(mods)>>>>,
                   !.ix_endpnt = [b \in 1..Len(mods) |-> b],
                   !.propT = [b \in 1..Len(mods) |-> 0],
                   !.yj = [b \in 1..Len(mods) |-> 2],
                   !.addProp = [b \in 1..Len(mods) |-> 1],
                   !.nb_fixResid = nb, !.type = ty] :
     fx \in [1..NumSlots(mods) -> {0, 1}], nb \in burns, ty \in types}

\* Each variant alone, and an additive+proportional endpoint followed by a
\* power endpoint, under Nelder-Mead with every length of the burn-in.
ResCfgs ==
  UNION {ResCfgsOf(<<v>>, MaxBurn + 2, 0..MaxBurn, {1}) : v \in rmAdd..rmAddPowLam}
    \cup ResCfgsOf(<<rmAddProp, rmPow>>, MaxBurn + 2, 0..MaxBurn, {1})

InitRes == \E c \in ResCfgs : InitAt(c, "FitResidualModels")

SpecRes == InitRes /\ [][ResIteration]_vars

\* ---------------------------------------------------- optimizer-adapter runs
\* Each variant alone for two iterations, the first in the burn-in branch and
\* the second past it (nb_fixResid = 0), under the minimizer types 1
\* (Nelder-Mead), 2 (newuoa) and 3 (neither).
OptCfgs == UNION {ResCfgsOf(<<v>>, 2, {0}, {1, 2, 3}) : v \in rmAdd..rmAddPowLam}

InitOpt == \E c \in OptCfgs : InitAt(c, "FitResidualModels")

SpecOpt == InitOpt /\ [][ResIteration]_vars

\* --------------------------------------------------- objective-function runs
\* Each optimizer-fitted variant alone for two iterations under Nelder-Mead,
\* with every fixed mask, with the terms of the scale added (addProp = 1) or
\* combined in quadrature (addProp = 2), the proportional term on the
\* untransformed or on the transformed prediction, for an untransformed and a
\* Box-Cox endpoint.
ObjCfgsOf(v) ==
  {[c EXCEPT !.addProp = <<ap>>, !.propT = <<pt>>, !.yj = <<t>>] :
     c \in ResCfgsOf(<<v>>, 2, {0}, {1}), ap \in {1, 2}, pt \in {0, 1}, t \in {2, 0}}

\* An additive+power endpoint and an additive+power+lambda endpoint with one
\* observation each, nothing fixed, one iteration.
PairCfgs ==
  {[c EXCEPT !.addProp = <<ap, ap>>, !.propT = <<pt, pt>>, !.yj = <<t, t>>] :
     c \in {d \in ResCfgsOf(<<rmAddPow, rmAddPowLam>>, 1, {0}, {1}) :
              \A j \in DOMAIN d.resFixed : d.resFixed[j] = 0},
     ap \in {1, 2}, pt \in {0, 1}, t \in {2, 0}}

ObjCfgs == UNION {ObjCfgsOf(v) : v \in rmPow..rmAddPowLam} \cup PairCfgs

InitObj == \E c \in ObjCfgs : InitAt(c, "FitResidualModels")

SpecObj == InitObj /\ [][ResIteration]_vars

\* ------------------------------------------------------ two-endpoint runs
\* One subject with one observation of each of two endpoints with the
\* residual models mods, the observations 1 and 2, sampled by the diagonal
\* kernel in one iteration of the whole program.
TwoEndpointCfg(mods) ==
  [BaseCfg EXCEPT !.niter = 1, !.pas = PasOf(1), !.nu = <<0, 1, 0>>,
                  !.ue = <<<<1, 0>>>>, !.fixedIx = {1, 2},
                  !.nendpnt = 2, !.res_mod = mods,
                  !.res_offset = Offsets(mods, 0),
                  !.resFixed = [j \in 1..NumSlots(mods) |-> 0],
                  !.resValue = [j \in 1..NumSlots(mods) |-> 0],
                  !.yM = <<1, 2>>, !.ix_idM = <<<<1, 2>>>>,
                  !.ix_endpnt = <<1, 2>>, !.propT = <<0, 0>>,
                  !.yj = <<2, 2>>, !.addProp = <<1, 1>>]

\* Every pair of the additive, the proportional and the
\* additive+proportional model.
TwoEndpointCfgs ==
  {TwoEndpointCfg(<<v1, v2>>) : v1 \in {rmAdd, rmProp, rmAddProp},
                                v2 \in {rmAdd, rmProp, rmAddProp}}

InitStat == \E c \in TwoEndpointCfgs : InitAt(c, "init")

SpecStat == InitStat /\ [][Next]_vars

\* ============================================================ properties
\* The blocks of the loop body in the order the source executes them.
CodeOrder ==
  <<"SampleE", "UpdateStatistics", "UpdatePopulationParams",
    "FitResidualModels", "UpdateInformation", "LogIteration">>

\* The same blocks with the residual fit ahead of the population update.
ResidFirstOrder ==
  <<"SampleE", "UpdateStatistics", "FitResidualModels",
    "UpdatePopulationParams", "UpdateInformation", "LogIteration">>

\* The blocks have run in the given order, once per iteration: a block has
\* never run more often than one before it, and the first is at most one
\* execution ahead of the last.
RanInOrder(order) ==
  /\ \A a \in 1..Len(order), b \in 1..Len(order) :
       a < b => phaseCount[order[a]] >= phaseCount[order[b]]
  /\ phaseCount[order[1]] <= phaseCount[order[Len(order)]] + 1

\* The blocks after the E-step.
MStepPhases == PhaseSet \ {"SampleE"}

\* C1 (as the source has it): every iteration visits the six blocks in the
\* order SampleE, UpdateStatistics, UpdatePopulationParams, FitResidualModels,
\* UpdateInformation, LogIteration; the population update precedes the
\* residual fit.
C1_PhasesInCodeOrder == RanInOrder(CodeOrder)

\* C1 (as stated): the order is SampleE, UpdateStatistics, FitResidualModels,
\* UpdatePopulationParams, UpdateInformation, LogIteration.
C1_ResidualFitBeforePopulation == RanInOrder(ResidFirstOrder)

\* C1 witness: the population update of an iteration has run and the residual
\* fit of that iteration is about to.
C1_PopulationUpdatedFirst ==
  /\ pc = "FitResidualModels"
  /\ phaseCount["UpdatePopulationParams"] = phaseCount["FitResidualModels"] + 1

\* C4 (as stated): with a distribution id outside {1,2,3} the fit ends with an
\* error and no result object reaches the caller.
C4_UnknownDistributionIsError ==
  cfg.distribution \notin {1, 2, 3} =>
    /\ ~out.given
    /\ pc \in {"fit_done", "returned"} => err # "none"

\* C5: when the transform of an observation is NaN, the run ends in the
\* iteration's statistics block before anything is smoothed: the E-step of that
\* iteration has run, no later block of it has, the covariance matrices and
\* residual parameters hold what they held before the iteration, its history
\* row is unwritten, and nothing runs afterwards.
C5_NaNAbortsBeforeUpdates ==
  err = "nan" =>
    /\ pc = "aborted"
    /\ ~out.given
    /\ phaseCount["SampleE"] = kiter + 1
    /\ \A p \in MStepPhases : phaseCount[p] = kiter
    /\ \A k \in DOMAIN par_hist : k > kiter => par_hist[k] = <<>>
    /\ kiter = 0 => /\ Gamma2_phi1 = Eye(nphi1)
                    /\ Gamma2_phi0 = Eye(nphi0)
                    /\ ares = [b \in Endpoints |-> cfg.resInit.a]

\* C5 witness: a run stopped by the NaN after its E-step.
C5_NaNAbortReached ==
  /\ err = "nan"
  /\ pc = "aborted"
  /\ phaseCount["SampleE"] = 1
  /\ phiDumps = 1

\* C6 (as the source has it): at the interrupt check of iteration k, and when
\* the interrupt fires there, rows 0..k of the history are written and the rows
\* after k are not.
C6_RowWrittenBeforeInterruptCheck ==
  (pc = "CheckInterrupt" \/ err = "interrupt") =>
    \A k \in DOMAIN par_hist : (par_hist[k] # <<>>) <=> (k <= kiter + 1)

\* C6 (as stated): when the interrupt fires at the check of iteration k, the
\* history row of iteration k has not been written.
C6_RowUnwrittenAtInterrupt ==
  err = "interrupt" => par_hist[kiter + 1] = <<>>

\* C6 witness: the interrupt fired in the second iteration, whose row is written.
C6_InterruptAfterRow ==
  /\ err = "interrupt"
  /\ kiter = 1
  /\ par_hist[2] # <<>>

\* C7 (as the source has it): when the interrupt fires at the check of
\* iteration k, no block of iteration k+1 runs and the exception leaves the
\* exported function before the result is built: the caller gets no result
\* object, hence none of the history rows.
C7_InterruptStopsWithoutResult ==
  err = "interrupt" =>
    /\ pc = "aborted"
    /\ \A p \in PhaseSet : phaseCount[p] = kiter + 1
    /\ ~out.given
    /\ out.par_hist = <<>>

\* C7 (as stated): after the interrupt the rows written so far are available
\* to the caller.
C7_HistoryAvailableAfterInterrupt ==
  err = "interrupt" =>
    /\ pc = "aborted"
    /\ \A p \in PhaseSet : phaseCount[p] = kiter + 1
    /\ \A k \in 1..(kiter + 1) : k \in DOMAIN out.par_hist /\ out.par_hist[k] = par_hist[k]

\* C7 witness: the interrupt fired in the first of several iterations.
C7_InterruptInFirstIteration ==
  /\ err = "interrupt"
  /\ pc = "aborted"
  /\ kiter = 0
  /\ cfg.niter > 1

\* A run that has left the loop with no error, on a known distribution, has
\* executed every block niter times and written every row.
RunComplete ==
  (pc \in {"fit_done", "returned"} /\ err = "none" /\ cfg.distribution \in {1, 2, 3}) =>
    /\ kiter = cfg.niter
    /\ \A p \in PhaseSet : phaseCount[p] = cfg.niter
    /\ \A k \in DOMAIN par_hist : par_hist[k] # <<>>

\* A history row changes only when iteration k's log block writes row k, which
\* was unwritten, after all rows before it and before all rows after it.
RowWrittenOnceInOrder ==
  \A k \in DOMAIN par_hist :
    par_hist'[k] # par_hist[k] =>
      /\ pc = "LogIteration"
      /\ k = kiter + 1
      /\ phaseCount["LogIteration"] = kiter
      /\ par_hist[k] = <<>>
      /\ \A j \in DOMAIN par_hist : j < k => par_hist[j] # <<>>
      /\ \A j \in DOMAIN par_hist : j > k => par_hist'[j] = <<>>

\* C8: a run with no error and no interrupt executes exactly niter iterations
\* and is then done; row k of the history is written once, during iteration k,
\* rows are written in increasing k, and a written row is never modified.
C8_HistoryWrittenOncePerIteration ==
  [](RunComplete /\ (pc = "LogIteration" => par_hist[kiter + 1] = <<>>))
    /\ [][RowWrittenOnceInOrder]_vars

\* C8 witness: a run of MaxIter iterations has returned with every row written.
C8_FullRunReturned ==
  /\ pc = "returned"
  /\ err = "none"
  /\ cfg.distribution = 1
  /\ cfg.niter = MaxIter
  /\ kiter = MaxIter
  /\ \A k \in 1..MaxIter : out.par_hist[k] # <<>>

\* Diagonal entry a of Gamma2_phi1 was overwritten by the fixed-element
\* override in iteration k.
OverriddenAt(k, a) ==
  /\ cfg.Gamma2_phi1fixed = 1
  /\ k > cfg.nb_fixOmega
  /\ cfg.Gamma2_phi1fixedIx[a][a] = 1

\* C2 (as the source has it): at the end of every iteration k, every diagonal
\* entry of Gamma2_phi1 that the fixed-element override did not overwrite is
\* at least its minv, and in the estimation phase of the covariate-only matrix
\* (k <= niter_phi0) so is every diagonal entry of Gamma2_phi0.
C2_DiagonalFlooredUnlessFixedOrDecaying ==
  (pc = "UpdatePopulationParams" /\ kiter >= 1) =>
    /\ \A a \in 1..nphi1 :
         OverriddenAt(kiter - 1, a) \/ Gamma2_phi1[a][a] >= Gmin(cfg.i1, a)
    /\ \A a \in 1..nphi1 :
         OverriddenAt(kiter - 1, a) =>
           Gamma2_phi1[a][a] = cfg.Gamma2_phi1fixedValues[a][a]
    /\ kiter - 1 <= cfg.niter_phi0 =>
         \A a \in 1..nphi0 : Gamma2_phi0[a][a] >= Gmin(cfg.i0, a)

\* C2 (as stated): at the end of every iteration every diagonal entry of both
\* covariance matrices is at least its minv, in every phase.
C2_DiagonalAlwaysFloored ==
  (pc = "UpdatePopulationParams" /\ kiter >= 1) =>
    /\ \A a \in 1..nphi1 : Gamma2_phi1[a][a] >= Gmin(cfg.i1, a)
    /\ \A a \in 1..nphi0 : Gamma2_phi0[a][a] >= Gmin(cfg.i0, a)

\* C2 witness: past every burn-in, with nothing fixed, a correlated
\* Gamma2_phi1 whose first diagonal entry sits on its minimum.
C2_FlooredPastBurnIn ==
  /\ pc = "UpdatePopulationParams"
  /\ kiter = MaxBurn + 2
  /\ cfg.Gamma2_phi1fixed = 0
  /\ Gamma2_phi1[1][1] = Gmin(cfg.i1, 1)
  /\ Gamma2_phi1[1][2] # 0

\* The value the parameter of slot j of endpoint b holds.
SlotParam(b, j) == ResOf(b)[FitParams(cfg.res_mod[b])[j]]

\* The fixed slots of endpoint b.
FixedSlots(b) == {j \in 1..Len(FitParams(cfg.res_mod[b])) : SlotFixed(b, j)}

\* C3 (as the source has it): the fit of an iteration k > nb_fixResid leaves
\* every fixed residual parameter equal to its resValue, whatever the
\* minimizer returns, and from iteration nb_fixResid + 2 on the fit does not
\* change it.
C3_FixedHeldAfterBurnIn ==
  [][(pc = "FitResidualModels" /\ kiter > cfg.nb_fixResid) =>
       \A b \in Endpoints : \A j \in FixedSlots(b) :
         /\ SlotParam(b, j)' = SlotValue(b, j)
         /\ kiter > cfg.nb_fixResid + 1 => SlotParam(b, j)' = SlotParam(b, j)]_vars

\* C3 (as stated): the fit of every iteration k > nb_fixResid leaves every
\* fixed residual parameter unchanged and equal to its resValue.
C3_FixedUnchangedAfterBurnIn ==
  [][(pc = "FitResidualModels" /\ kiter > cfg.nb_fixResid) =>
       \A b \in Endpoints : \A j \in FixedSlots(b) :
         /\ SlotParam(b, j)' = SlotValue(b, j)
         /\ SlotParam(b, j)' = SlotParam(b, j)]_vars

\* C3 witness: two fits past the burn-in of the four-parameter variant with a
\* fixed slot between free ones: the fixed c sits at its resValue and the free
\* b has left its initial value.
C3_FixedAmongFree ==
  /\ pc = "FitResidualModels"
  /\ cfg.res_mod = <<rmAddPowLam>>
  /\ cfg.resFixed = <<0, 0, 1, 0>>
  /\ kiter = cfg.nb_fixResid + 3
  /\ cres[1] = SlotValue(1, 3)
  /\ bres[1] # cfg.resInit.b

\* C9: a proposal step of do_mcmc changes phiM only in rows of its accepted
\* set and only in columns of the subset it targets; every other entry, in
\* particular every column of the other subset, is unchanged.
C9_OnlyAcceptedRowsOfSubsetChange ==
  [][\A r \in Rows, c \in Cols :
       phiM'[r][c] # phiM[r][c] =>
         /\ pc = "SampleE"
         /\ mc' = mcNext
         /\ r \in ind'
         /\ c \in Range(SubsetCols(mc'.s))]_vars

\* C9 witness: the first block proposal on two subjects was accepted for the
\* first subject only: its estimated effect has moved, the other row has not.
C9_OneRowAccepted ==
  /\ Rows = {1, 2}
  /\ kiter = 0
  /\ mc = [s |-> 1, method |-> 1, u |-> 0, k1 |-> 1]
  /\ mcNext.u = 1
  /\ ind = {1}
  /\ phiM[1][1] # 0
  /\ phiM[2] = <<0, 0>>

\* Proposal q directly follows proposal p inside one do_mcmc call: the next
\* coordinate of a per-coordinate sweep, or the next repetition.
SameCallNext(p, q) ==
  /\ q.s = p.s
  /\ q.method = p.method
  /\ \/ p.method = 3 /\ q.u = p.u /\ q.k1 = p.k1 + 1
     \/ q.u = p.u + 1 /\ q.k1 = 1 /\ (p.method = 3 => p.k1 = Len(SubsetCols(p.s)))

\* Proposal p is the last one of its do_mcmc call in iteration k.
LastOfCall(p, k) ==
  /\ p.u = nuOf(k, p.method) - 1
  /\ p.method = 3 => p.k1 = Len(SubsetCols(p.s))

\* C10 (as the source has it): for each subset, i1 then i0, the E-step runs
\* all nu1 block proposals, then all nu2 diagonal proposals, then all nu3
\* per-coordinate sweeps: repetition r + 1 of a kernel directly follows its
\* repetition r, and another kernel starts only after the last repetition of
\* the one before.
C10_KernelsRunOneAfterAnother ==
  [][(pc = "SampleE" /\ mcNext # NoProposal /\ mcNext' # mcNext) =>
       \/ SameCallNext(mcNext, mcNext')
       \/ /\ LastOfCall(mcNext, kiter)
          /\ \/ mcNext' = NoProposal
             \/ mcNext'.s = mcNext.s /\ mcNext'.method > mcNext.method /\ mcNext'.u = 0
             \/ mcNext'.s < mcNext.s /\ mcNext'.u = 0]_vars

\* C10 (as stated): a block proposal of repetition r + 1 directly follows the
\* per-coordinate sweep of repetition r, whenever that sweep exists.
C10_SweepBeforeNextBlock ==
  (pc = "SampleE" /\ mcNext.method = 1 /\ mcNext.u >= 1
     /\ nuOf(kiter, 3) >= mcNext.u) =>
    /\ mc.s = mcNext.s
    /\ mc.method = 3
    /\ mc.u = mcNext.u - 1
    /\ mc.k1 = Len(SubsetCols(mc.s))

\* C10 witness: the second block proposal ran directly after the first, in an
\* E-step that has per-coordinate sweeps to run.
C10_BlockAfterBlock ==
  /\ pc = "SampleE"
  /\ mc = [s |-> 1, method |-> 1, u |-> 1, k1 |-> 1]
  /\ mcNext.method = 1
  /\ nuOf(kiter, 3) > 0

\* C15 (as the source has it): with Gamma2_phi1fixed = 1, at the end of every
\* iteration k > nb_fixOmega every flagged diagonal element of Gamma2_phi1
\* equals its fixed value; a flagged off-diagonal element equals its fixed
\* value when k > nb_correl and is 0 when k <= nb_correl, whatever the
\* structural mask.
C15_FixedElementsHeldUnlessCorrelBurnIn ==
  (pc = "UpdatePopulationParams" /\ kiter >= 1 /\ cfg.Gamma2_phi1fixed = 1
     /\ kiter - 1 > cfg.nb_fixOmega) =>
    \A a \in 1..nphi1, b \in 1..nphi1 :
      cfg.Gamma2_phi1fixedIx[a][b] = 1 =>
        Gamma2_phi1[a][b] =
          IF a = b \/ kiter - 1 > cfg.nb_correl
          THEN cfg.Gamma2_phi1fixedValues[a][b] ELSE 0

\* C15 (as stated): with Gamma2_phi1fixed = 1, at the end of every iteration
\* k > nb_fixOmega every flagged element, diagonal or not, equals its fixed
\* value whatever nb_correl and the structural mask are.
C15_FixedElementsAlwaysHeld ==
  (pc = "UpdatePopulationParams" /\ kiter >= 1 /\ cfg.Gamma2_phi1fixed = 1
     /\ kiter - 1 > cfg.nb_fixOmega) =>
    \A a \in 1..nphi1, b \in 1..nphi1 :
      cfg.Gamma2_phi1fixedIx[a][b] = 1 =>
        Gamma2_phi1[a][b] = cfg.Gamma2_phi1fixedValues[a][b]

\* C15 witness: an iteration past nb_fixOmega and inside the correlation
\* burn-in, under a diagonal structural mask: the fixed diagonal entry holds its
\* value, the off-diagonal pair fixed at 1 is 0.
C15_FixedInsideCorrelBurnIn ==
  /\ pc = "UpdatePopulationParams"
  /\ cfg.Gamma2_phi1fixed = 1
  /\ cfg.covstruct1 = Eye(2)
  /\ kiter - 1 > cfg.nb_fixOmega
  /\ kiter - 1 <= cfg.nb_correl
  /\ cfg.Gamma2_phi1fixedValues[1][2] = 1
  /\ Gamma2_phi1[1][2] = 0
  /\ Gamma2_phi1[2][2] = cfg.Gamma2_phi1fixedValues[2][2]

\* C16: a covariate coefficient flagged as fixed holds its initial value at the
\* end of every iteration, whatever the solution of the normal equations is.
C16_FixedCoefficientsHeld ==
  [][\A c \in Cols : c \in cfg.fixedIx => MCOV'[c] = MCOV[c]]_vars

\* C16 witness: after an update with coefficients 1 and 3 fixed, the free
\* coefficient 2 has moved and the fixed ones have not.
C16_FreeCoefficientMoved ==
  /\ pc = "UpdatePopulationParams"
  /\ kiter >= 1
  /\ cfg.fixedIx = {1, 3}
  /\ MCOV = <<0, 1, 0>>

\* The coordinate of pxmin the minimizer returned for slot j of endpoint b in
\* iteration k: the slot's own position up to the burn-in threshold, its
\* position among the free slots after it.
ReturnedCoord(b, j, k) ==
  IF k > cfg.nb_fixResid
  THEN 1 + Cardinality({jj \in 1..(j - 1) : ~SlotFixed(b, jj)})
  ELSE j

\* C20 (as stated): in both branches, the fit of an optimizer-fitted variant
\* moves each free parameter to param + pas(k)*(candidate - param), with the
\* candidate computed from the coordinate returned for that same parameter:
\* x*x for a scale, the un-mapped x for a power or lambda.
C20_BlendUsesOwnCoordinate ==
  [][pc = "FitResidualModels" =>
       \A b \in Endpoints :
         cfg.res_mod[b] \notin {rmAdd, rmProp} =>
           \A j \in 1..Len(FitParams(cfg.res_mod[b])) :
             ~SlotFixed(b, j) =>
               SlotParam(b, j)' =
                 Blend(SlotParam(b, j),
                       Candidate(FitParams(cfg.res_mod[b])[j],
                                 pxmin'[b][ReturnedCoord(b, j, kiter)]),
                       kiter)]_vars

\* The endpoints whose variant is fitted through the optimizer adapter.
OptEndpoints == {b \in Endpoints : cfg.res_mod[b] \notin {rmAdd, rmProp}}

\* The minimizers for two or more dimensions.
MultiDimPaths == {"nelder", "newuoa", "newuoa+nelder"}

\* C12 (as the source has it): a second minimizer runs only after newuoa
\* (type 2) returned NA; Nelder-Mead's convergence flag is not read, so under
\* type 1 nothing follows a Nelder-Mead run that did not converge; and whatever
\* the minimizers report, every parameter the branch treats as free is blended
\* with what the result vector holds.
C12_FallbackOnlyFromNewuoaAndAlwaysBlended ==
  [][pc = "FitResidualModels" =>
       \A b \in OptEndpoints :
         /\ (cfg.type = 1 /\ opt'[b].n >= 2) => opt'[b].path = "nelder"
         /\ opt'[b].path = "newuoa+nelder" => cfg.type = 2
         /\ \A j \in 1..Len(FitParams(cfg.res_mod[b])) :
              (kiter <= cfg.nb_fixResid \/ ~SlotFixed(b, j)) =>
                SlotParam(b, j)' = FitSlot(b, kiter, ResOf(b), j, 0, pxmin'[b])]_vars

\* C12 (as stated): a minimizer that does not converge is followed by the
\* alternate one, and when both fail the endpoint's parameters are unchanged.
C12_FallbackAndUnblendedOnFailure ==
  [][pc = "FitResidualModels" =>
       \A b \in OptEndpoints :
         /\ ~(opt'[b].path = "nelder" /\ opt'[b].iconv # 0)
         /\ (opt'[b].path = "newuoa+nelder" /\ opt'[b].iconv # 0) =>
              ResOf(b)' = ResOf(b)]_vars

\* C12 witness: newuoa returned NA, the Nelder-Mead run that followed did not
\* converge, and the additive parameter was blended all the same.
C12_BlendedAfterBothFailed ==
  /\ pc = "FitResidualModels"
  /\ kiter = 1
  /\ cfg.res_mod = <<rmAddProp>>
  /\ opt[1].path = "newuoa+nelder"
  /\ opt[1].iconv = 1
  /\ ares[1] # cfg.resInit.a

\* C19 (as stated): past the burn-in threshold the start vector holds the
\* non-fixed parameters in slot order, n is the parameter count minus the
\* number of fixed flags, and the adapter runs nothing for n = 0, the
\* one-dimensional search for n = 1 and a multi-dimensional minimizer for
\* n >= 2.
C19_StartVectorAndDispatch ==
  [][(pc = "FitResidualModels" /\ kiter > cfg.nb_fixResid) =>
       \A b \in OptEndpoints :
         LET ps == FitParams(cfg.res_mod[b])
             call == opt'[b]
         IN /\ call.n = Len(ps) - Cardinality(FixedSlots(b))
            /\ Len(call.start) = call.n
            /\ \A j \in 1..Len(ps) :
                 ~SlotFixed(b, j) => call.start[ReturnedCoord(b, j, kiter)] = ps[j]
            /\ call.n = 0 => call.path = "none"
            /\ call.n = 1 => call.path = "optimize1"
            /\ call.n >= 2 => call.path \in MultiDimPaths]_vars

\* The calls of user_fn the E-step of iteration k makes for subset s: none for
\* an empty subset, else m*(nu[0] + nu[1] + nu[2]*nphi_s) with m = 20 for k = 0.
ExpectedCalls(s, k) ==
  IF Len(SubsetCols(s)) = 0 THEN 0
  ELSE (IF k = 0 THEN 20 ELSE 1) *
         (cfg.nu[1] + cfg.nu[2] + cfg.nu[3] * Len(SubsetCols(s)))

\* C17: the evaluator is called once before the first iteration, and the
\* E-step of iteration k calls it m*(nu[0] + nu[1] + nu[2]*nphi_s) times for
\* each non-empty subset s, with m = 20 for k = 0 and m = 1 afterwards.
C17_EvaluatorCallsPerIteration ==
  /\ nEval.init = (IF pc = "init" THEN 0 ELSE 1)
  /\ (pc = "SampleE" /\ mcNext = NoProposal) =>
       /\ nEval.s1 = ExpectedCalls(1, kiter)
       /\ nEval.s0 = ExpectedCalls(0, kiter)
  /\ (pc = "iter_head" /\ kiter >= 1) =>
       /\ nEval.s1 = ExpectedCalls(1, kiter - 1)
       /\ nEval.s0 = ExpectedCalls(0, kiter - 1)

\* C17 witness: the second iteration is over, with one call of the diagonal
\* kernel and two calls per repetition of the sweep over two coordinates.
C17_SecondIterationCounted ==
  /\ pc = "iter_head"
  /\ kiter = 2
  /\ nphi1 = 2
  /\ cfg.nu[1] = 0 /\ cfg.nu[2] = 1 /\ cfg.nu[3] > 1
  /\ nEval.s1 = 1 + 2 * cfg.nu[3]
  /\ nEval.s0 = 1 + cfg.nu[3]

\* C18: once the evaluator has been called, the cached prediction of every
\* observation is what the evaluator returns for the current chain state of
\* the observation's row.
C18_CacheFollowsChainState ==
  pc # "init" =>
    \A o \in Obs : fsave[o] = ReplaceNaN(saem_lhs(phiM, o))

\* C18 witness: a proposal moved the first of two rows and not the second; the
\* first row's two observations took the proposal's prediction and the second
\* row's observation kept its cached one.
C18_OneRowRefreshed ==
  /\ pc = "SampleE"
  /\ nM = 2
  /\ ind = {1}
  /\ phiM[1] # phiM[2]
  /\ fsave[1] = fsave[2]
  /\ fsave[3] # fsave[1]

\* C13: an evaluator call re-solves at most maxOdeRecalc times, its first solve
\* runs at the unscaled tolerance, every re-solve widens the tolerance by one
\* more factor, and the call leaves the tolerance scaling at 1.
C13_RecalcBoundedAndUndone ==
  /\ atolRtol = 0
  /\ solves # <<>> =>
       /\ Len(solves) - 1 <= cfg.maxOdeRecalc
       /\ solves[1] = 0
       /\ \A k \in 2..Len(solves) : solves[k] = solves[k - 1] + 1

\* C13 witness: a call used the whole budget of two re-solves after an
\* earlier call of the same iteration.
C13_BudgetUsedTwice ==
  /\ cfg.maxOdeRecalc = 2
  /\ nEval.s1 >= 2
  /\ Len(solves) = 3
  /\ atolRtol = 0

\* C14: column 0 of the matrix the evaluator wrapper returns holds no NaN, and
\* the NaN warning is printed at most once in a fit.
C14_NaNReplacedAndWarnedOnce ==
  /\ \A o \in DOMAIN fcKind : fcKind[o] # "nan"
  /\ nanWarnings <= 1

\* C14 witness: two calls saw a NaN prediction, the last returned the penalty
\* in its place and the warning was printed once.
C14_TwoNaNCallsOneWarning ==
  /\ nanCalls >= 2
  /\ nanWarnings = 1
  /\ \E o \in DOMAIN fcKind : fcKind[o] = "penalty"

\* C11 (as stated): with rmcmc = 0 the diagonal and per-coordinate proposals
\* equal the current chain state, deltu is zero for every row and every row is
\* accepted.
C11_ZeroScaleAcceptsAll ==
  [][(pc = "SampleE" /\ cfg.rmcmc = 0 /\ mcNext.method \in {2, 3}) =>
       /\ \A r \in Rows :
            SignOf(U_y[r], ProposalU_y(user_function(phiM, 0).g)[r]) = "zero"
       /\ ind' = Rows]_vars

\* The element-wise maximum of the decayed covariance G and the diagonal of the
\* estimate E.
AnnealOf(G, E) ==
  [a \in DOMAIN G |-> [b \in DOMAIN G |->
     Max2(Halves(cfg.coef_sa, G[a][b]), IF a = b THEN E[a][b] ELSE 0)]]

\* What iteration k makes of the matrix A it chose: structure mask, diagonal
\* floor, fixed elements, and the diagonal alone up to nb_correl.
MaskFloorFix(k, A) ==
  LET D == DOMAIN A
      floored == FloorDiag([a \in D |-> [b \in D |-> A[a][b] * cfg.covstruct1[a][b]]],
                           cfg.i1)
      fixed == [a \in D |-> [b \in D |->
                  IF cfg.Gamma2_phi1fixed = 1 /\ k > cfg.nb_fixOmega
                     /\ cfg.Gamma2_phi1fixedIx[a][b] = 1
                  THEN cfg.Gamma2_phi1fixedValues[a][b] ELSE floored[a][b]]]
  IN IF k <= cfg.nb_correl THEN diagmat(fixed) ELSE fixed

\* C21 (as the source has it): the annealing update, the element-wise maximum
\* of the previous covariance times coef_sa and the diagonal of the estimate
\* G1, is applied in the nb_sa + 1 iterations kiter = 0..nb_sa, and the plain
\* estimate G1 is used in every later iteration.
C21_AnnealedThroughNbSa ==
  [][pc = "UpdatePopulationParams" =>
       Gamma2_phi1' =
         MaskFloorFix(kiter, IF kiter <= cfg.nb_sa
                             THEN AnnealOf(Gamma2_phi1, G1') ELSE G1')]_vars

\* C21 (as stated): the annealing update is applied in exactly the first nb_sa
\* iterations (kiter = 0..nb_sa-1) and the plain estimate in every later one.
C21_AnnealedInFirstNbSa ==
  [][pc = "UpdatePopulationParams" =>
       Gamma2_phi1' =
         MaskFloorFix(kiter, IF kiter < cfg.nb_sa
                             THEN AnnealOf(Gamma2_phi1, G1') ELSE G1')]_vars

\* C21 witness: with nb_sa = 1 the second iteration (kiter = 1) has run past
\* the correlation burn-in with a correlated estimate, and the covariance it
\* left has no correlation: the iteration annealed.
C21_SecondIterationAnnealed ==
  /\ pc = "UpdatePopulationParams"
  /\ kiter = 2
  /\ cfg.nb_sa = 1
  /\ cfg.nb_correl = 0
  /\ cfg.Gamma2_phi1fixed = 0
  /\ cfg.covstruct1 = Ones(2)
  /\ G1[1][2] = MaxVar
  /\ Gamma2_phi1[1][2] = 0

\* The dumps written and the place of the loop: one dump per E-step; at the
\* interrupt check of iteration kiter every block of the iteration has run and
\* kiter + 1 dumps are written; at the head of iteration kiter, kiter dumps.
DumpsMatchIterations ==
  /\ phiDumps = phaseCount["SampleE"]
  /\ pc = "CheckInterrupt" =>
       /\ phiDumps = kiter + 1
       /\ \A p \in PhaseSet : phaseCount[p] = kiter + 1
  /\ pc = "iter_head" => phiDumps = kiter

\* A dump is written by the step that ends the E-step and starts the statistics
\* update; the iteration counter moves only at the interrupt check, which is
\* entered once, from the history block, and is followed by the next iteration
\* or by the abort.
DumpThenCheckLast ==
  /\ phiDumps' # phiDumps =>
       /\ pc = "SampleE" /\ mcNext = NoProposal
       /\ pc' = "UpdateStatistics"
       /\ phiDumps' = phiDumps + 1
       /\ phaseCount["UpdateStatistics"] = kiter
  /\ kiter' # kiter =>
       /\ pc = "CheckInterrupt" /\ pc' = "iter_head" /\ kiter' = kiter + 1
  /\ (pc' = "CheckInterrupt" /\ pc # "CheckInterrupt") => pc = "LogIteration"
  /\ (pc = "CheckInterrupt" /\ pc' # "CheckInterrupt") =>
       pc' \in {"iter_head", "aborted"}

\* C22: every iteration that reaches its end appends exactly one dump of the
\* chain state, after its E-step and before its statistics update, and makes
\* exactly one user-interrupt check, as its last action.
C22_OneDumpOneCheckPerIteration ==
  []DumpsMatchIterations /\ [][DumpThenCheckLast]_vars

\* C22 witness: two iterations have ended without an interrupt, with two dumps
\* written.
C22_TwoIterationsTwoDumps ==
  /\ pc = "iter_head"
  /\ kiter = 2
  /\ err = "none"
  /\ phiDumps = 2

\* C23 (as stated): wherever a residual scale is computed, at the head of the
\* iteration, in a proposal and in the objective of a residual model, a scale
\* of exactly zero is replaced by 1.0 before it divides, and any other value is
\* clamped into [1e-200, 1e300].
C23_ZeroScaleReplacedEverywhere ==
  /\ cfg.distribution = 1 =>
       \A r \in DOMAIN U_y : \A k \in DOMAIN U_y[r] :
         U_y[r][k] # NaNTerm => U_y[r][k][2] # ClampG(0)
  /\ \A b \in DOMAIN objEval : \A o \in DOMAIN objEval[b] :
       objEval[b][o].g =
         (IF objEval[b][o].raw = 0 THEN 1 ELSE ClampG(objEval[b][o].raw))

\* The parameters the objective of endpoint b worked with in the fit just
\* finished (the fit of iteration kiter - 1).
LastPoint(b) == ObjPoint(b, kiter - 1, pxmin[b])

\* The prediction the scale of observation o is built on, with lambda at the
\* endpoint's own.
ScaledPrediction(o) ==
  LET b == cfg.ix_endpnt[o]
  IN handleF(cfg.propT[b], PowerD(fsave[o], b), fsave[o], FALSE, FALSE)

\* C24 (as stated): with the combination flag selecting quadrature, the scale
\* of the additive+power objective is sqrt(a^2 + b^2 * f^(2p)) for the
\* natural-scale a and b, and it is the scale the additive+power+lambda
\* objective computes for the same a, b, p and f with lambda held at the
\* endpoint's transform lambda.
C24_AddPowQuadratureMatchesLambdaVariant ==
  /\ \A b \in DOMAIN objEval : \A o \in DOMAIN objEval[b] :
       (cfg.res_mod[b] = rmAddPow /\ cfg.addProp[b] # 1) =>
         objEval[b][o].raw =
           Isqrt(LastPoint(b).a * LastPoint(b).a
                 + LastPoint(b).b * LastPoint(b).b
                   * IPow(ScaledPrediction(o), 2 * LastPoint(b).c))
  /\ \A b1 \in DOMAIN objEval, b2 \in DOMAIN objEval :
       \A o1 \in DOMAIN objEval[b1], o2 \in DOMAIN objEval[b2] :
         (/\ cfg.res_mod[b1] = rmAddPow /\ cfg.res_mod[b2] = rmAddPowLam
          /\ cfg.addProp[b1] # 1 /\ cfg.addProp[b2] # 1
          /\ cfg.propT[b1] = cfg.propT[b2] /\ cfg.yj[b1] = cfg.yj[b2]
          /\ fsave[o1] = fsave[o2]
          /\ LastPoint(b1).a = LastPoint(b2).a
          /\ LastPoint(b1).b = LastPoint(b2).b
          /\ LastPoint(b1).c = LastPoint(b2).c
          /\ LastPoint(b2).l = 1) =>
           objEval[b1][o1] = objEval[b2][o2]

\* The index in resFixed of the n-th entry that is 0: resKeep(n - 1) + 1.
resKeep(n) ==
  CHOOSE j \in DOMAIN cfg.resFixed :
    /\ cfg.resFixed[j] = 0
    /\ Cardinality({jj \in 1..j : cfg.resFixed[jj] = 0}) = n

\* C25: for every variant, slot j of the endpoint's block of resFixed/resValue
\* as the fitter reads it and slot j of its block of vcsig2 are the same
\* parameter, the blocks have the same length, a slot fixed by the fitter
\* shows its fixed value in vcsig2, and the residual part of the history row
\* is vcsig2 without exactly the fixed slots.
C25_FitAndAssemblySlotsAgree ==
  /\ \A b \in Endpoints :
       LET v == cfg.res_mod[b]
           off == cfg.res_offset[b]
       IN /\ Len(AsmParams(v)) = Len(FitParams(v))
          /\ \A j \in 1..Len(FitParams(v)) :
               /\ vcsig2[off + j] = ResOf(b)[FitParams(v)[j]]
               /\ (SlotFixed(b, j) /\ kiter > cfg.nb_fixResid + 1) =>
                    vcsig2[off + j] = SlotValue(b, j)
  /\ Len(vcsig2) = Len(cfg.resFixed)
  /\ Len(HistoryRow[3]) = Cardinality({j \in DOMAIN cfg.resFixed : cfg.resFixed[j] = 0})
  /\ \A n \in DOMAIN HistoryRow[3] : HistoryRow[3][n] = vcsig2[resKeep(n)]

\* C25 witness: past the burn-in, a power endpoint whose scale is fixed and
\* whose exponent is free and differs from the scale: the history keeps the
\* exponent alone.
C25_PowerScaleFixedExponentKept ==
  /\ cfg.res_mod = <<rmPow>>
  /\ cfg.resFixed = <<1, 0>>
  /\ kiter > cfg.nb_fixResid + 1
  /\ bres[1] = cfg.resValue[1]
  /\ cres[1] # bres[1]
  /\ HistoryRow[3] = <<cres[1]>>

\* C26 (as stated): for every variant and minimizer type, every entry of the
\* result vector the blend reads (entries 0..n-1) lies inside the allocated
\* vector and was written by the adapter during that call.
C26_BlendReadsAllocatedWrittenEntries ==
  \A b \in DOMAIN opt :
    /\ opt[b].read <= opt[b].alloc
    /\ opt[b].read <= opt[b].written

\* A proposal of do_mcmc is executed in this step.
ProposalStep == pc = "SampleE" /\ mcNext # NoProposal /\ mc' = mcNext

\* C27 (as stated): the per-coordinate kernel masks the noise it adds to
\* column i(k1) with the indicator column i(k1), as the block and diagonal
\* kernels mask the columns i with the indicator columns i: a row that is not
\* exposed in a column keeps its value there (in the block kernel, keeps it or
\* takes the prior mean).
C27_NoiseMaskedByOwnIndicatorColumn ==
  [][ProposalStep =>
       \A r \in Rows :
         LET i == SubsetCols(mcNext.s)
             moved == IF mcNext.method = 3 THEN {i[mcNext.k1]} ELSE Range(i)
         IN \A c \in moved :
              cfg.ue[r][c] = 0 =>
                \/ phiM'[r][c] = phiM[r][c]
                \/ mcNext.method = 1 /\ phiM'[r][c] = mprior_phiM(r, c)]_vars

\* C28 (as stated): the censoring adapter rewrites, for observation j, the
\* cell indioM(j) that holds the contribution of observation j: a cell that
\* holds no observation keeps its zero, a cell with a censored contribution
\* is the cell of a censored observation and holds that observation's own
\* data, and under the normal distribution the cell of a censored
\* observation holds its censored contribution once it is written.
C28_CensoringRewritesOwnCell ==
  \A c \in Cells :
    /\ (\A o \in Obs : indioM(o) # c) => DYF[c] = ZeroCell
    /\ \A o \in Obs :
         (indioM(o) = c /\ DYF[c] # ZeroCell) =>
           /\ IsCensTerm(DYF[c]) => (CensOf(o) # 0 /\ DYF[c][2] = cfg.yM[o])
           /\ (cfg.distribution = 1 /\ CensOf(o) # 0) => IsCensTerm(DYF[c])

\* DYF as SAEM::inits leaves it.
ZeroDYF == [c \in Cells |-> ZeroCell]

\* C29 (as stated): for the chain state and the predictions cached for it, the
\* per-row data likelihood of the head of the iteration equals the one a
\* proposal step computes for the same predictions: both scales are built on
\* the transformed prediction when propT is set and on the untransformed one
\* otherwise, and the censoring adapter is run with the same arguments.
C29_HeadLikelihoodEqualsProposalLikelihood ==
  fsave # <<>> =>
    /\ \A o \in Obs :
         LET b == cfg.ix_endpnt[o]
             sel == IF cfg.propT[b] # 0 THEN PowerD(fsave[o], b) ELSE fsave[o]
         IN /\ HeadG(fsave[o], o) = ScaleOf(b, sel)
            /\ ProposalG(fsave[o], o) = ScaleOf(b, sel)
    /\ \A r \in Rows :
         ColumnSum(HeadDYF(ZeroDYF, fsave), r) = ColumnSum(ProposalDYF(ZeroDYF, fsave), r)

\* a/b = c/d for two fractions.
RatEq(p, q) == p[1] * q[2] = q[1] * p[2]

\* C30 (as stated): with more than one endpoint, the statistic resy(k) that the
\* score and the Hessian divide by sigma2[0] is the residual sum of squares of
\* endpoint 0 in chain k, not that of the last endpoint processed.
C30_ResyIsFirstEndpointsStatistic ==
  (pc = NextPhase("UpdateStatistics") /\ err = "none") =>
    \A k \in DOMAIN resy : RatEq(resy[k], Resk(1, k))

====
